---- MODULE Spec2Model ----
(***************************************************************************)
(* Model of the Tuya Zigbee driver suite: the datapoint write path with    *)
(* exponential backoff (lib/TuyaSpecificClusterDevice.js), the ZCL on/off  *)
(* command path with lock, abort and debounce (NovaDigital 3-gang /        *)
(* 1-gang device.js) and the availability manager (AvailabilityManager.js).*)
(* Every await of the source is a separate step of the model, so that      *)
(* handlers interleave exactly where the run loop lets them interleave.    *)
(***************************************************************************)
EXTENDS Integers, Sequences, FiniteSets, TLC

\* ───────────────────────── bounds of the model ─────────────────────────
MaxRetriesBound == 3      \* maxRetries is drawn from 0..MaxRetriesBound
MaxTransactions == 260    \* cap on the transaction counter of the write path
MaxInv == 3               \* invocations of _debouncedOnCapabilityOnoff (user commands and re-dispatches)
MaxTicks == 7             \* time steps the command model runs for
NumGangs == 1             \* virtual devices of the node that receive on/off commands
MaxAlive == 1             \* _markAlive calls that may be in progress at once
MaxAvailSteps == 4        \* advances of the clock in the availability model
MaxCmds == 4              \* commands in one sendBulkCommands list
MaxBytes == 4             \* bytes of a datapoint value
MaxCommands == 2          \* inbound cluster commands
MaxTimeCalls == 2         \* calls of sendTimeResponse
MaxChangedKeys == 2       \* keys changed in one settings change
MaxSettingsCalls == 1     \* calls of onSettings
MaxOutbound == 2          \* on/off commands of the user next to one report
MaxLifeCalls == 3         \* install() and uninstall() calls on one manager
MaxFrames == 2            \* frames that arrive at the node
MaxDimCmds == 3           \* dim commands
MaxDimTime == 2400        \* milliseconds the clock of the dimmer runs
LateMs == 100             \* lateness of a timer of the host, in milliseconds
MaxFaults == 1            \* host calls of the availability manager that may fail

\* base delays the callers pass: 300 (default) and 200 (bulk commands)
BaseDelays == {200, 300}

NoError == [attempt |-> -1, kind |-> "none"]

VARIABLES
  \* ── _sendTuyaDatapoint (one call at a time) ──
  sd_pc,           \* "idle" | "loop" | "tx" | "wait" | "returned" | "thrown"
  sd_maxRetries,   \* argument maxRetries
  sd_baseDelay,    \* argument baseDelay
  sd_attempt,      \* loop variable `attempt`
  sd_lastError,    \* local `lastError`
  sd_thrown,       \* error the call threw
  sd_log,          \* outcome of every attempt so far: "ok" | "transport" | "notready"
  sd_txCount,      \* number of tuya.datapoint calls made by this call
  sd_waits,        \* delays handed to homey.setTimeout by this call, in order
  transactionID,   \* field _transactionID
  \* ── ZCL on/off command path (NovaDigital 3-gang / 1-gang) ──
  now,             \* Date.now()
  inv,             \* invocations of _debouncedOnCapabilityOnoff: locals, position, abort signal
  dev,             \* per virtual device: _commandLock, _commandAbort, _pendingCommand, _lastCommandTime
  timers,          \* pending setTimeout(() => _debouncedOnCapabilityOnoff(...), 50)
  retry_stage,     \* device setting retry_stage
  \* ── AvailabilityManager (one manager, owned by the main device of the node) ──
  strategy,        \* "Cluster0" (handleFrame hook) | "Cluster6" (injected callback)
  health_monitoring_enabled,   \* device setting read by _isEnabled()
  handlesSetting,  \* the driver's onSettings installs / uninstalls the manager
  installed,       \* _installed
  watchdog,        \* _watchdogInterval !== null
  hook,            \* device._markAliveFromAvailability / node.handleFrame hook is in place
  available,       \* getAvailable() of every device of the driver
  last_seen_ts,    \* store value 'last_seen_ts' of the main device (0 = not stored)
  alive,           \* the _markAlive calls in progress and what each has done
  tick,            \* the watchdog callback: what the last tick saw and did
  event,           \* the last inbound activity since the last timeout, and the device it was for
  a_steps,         \* clock advances so far
  faultsLeft,      \* host calls of the manager that may still fail
  lastFault,       \* the last host call that failed and where its error ended
  \* ── _getSiblings and the cascades over arbitrary getData() shapes ──
  sib,             \* this.device, getData() of every device, the resolved list, the cascade
  \* ── onNodeInit / onDeleted of the virtual devices of one multi-gang node ──
  node,            \* driver class, monitoring setting, initialised devices, managers, watchdogs
  bulk,            \* one call of sendBulkCommands: its arguments, locals and position
  route,           \* Tuya multi-gang driver: its devices, listeners and the last dp event
  tx,              \* _transactionID of each virtual device and the ids of the last frames
  codec,           \* a datapoint value on its way through decode, encode and decode again
  cluster,         \* the Tuya cluster's command listener: the last command and what it caused
  timeSync,        \* the last call of sendTimeResponse and the payload it sent
  settingsCall,    \* the last call of onSettings: its arguments, its writes and its outcome
  inbound,         \* one device run twice: a report delivered once, and the same report twice
  life,            \* an availability manager under overlapping install() / uninstall() calls
  dim,             \* MOES dimmer: the debounce timer of dim commands and the writes sent
  readiness         \* waitForDeviceReady and the onNodeInit that calls it

sendVars == <<sd_pc, sd_maxRetries, sd_baseDelay, sd_attempt, sd_lastError,
              sd_thrown, sd_log, sd_txCount, sd_waits, transactionID>>

cmdVars == <<now, inv, dev, timers, retry_stage>>

availVars == <<strategy, handlesSetting, health_monitoring_enabled, installed, watchdog, hook, available,
               last_seen_ts, alive, tick, event, a_steps, faultsLeft, lastFault>>

sibVars == <<sib>>

\* the parts of the program outside the three groups above
nodeVars == <<node>>

bulkVars == <<bulk>>

routeVars == <<route>>

txVars == <<tx>>

\* the state of the frame-level parts: transaction ids, codec, cluster, time, settings
codecVars == <<codec>>

clusterVars == <<cluster>>

timeVars == <<timeSync>>

settingsVars == <<settingsCall>>

inboundVars == <<inbound>>

lifeVars == <<life>>
dimVars == <<dim>>
readyVars == <<readiness>>

lateVars == <<lifeVars, dimVars, readyVars>>

earlyVars == <<sendVars, cmdVars, availVars, sibVars, nodeVars, bulkVars, routeVars, txVars,
               codecVars, clusterVars, timeVars, settingsVars, inboundVars>>

protoVars == <<txVars, codecVars, clusterVars, timeVars, settingsVars, inboundVars, lateVars>>

extVars == <<sibVars, nodeVars, bulkVars, routeVars, protoVars>>

vars == <<sendVars, cmdVars, availVars, extVars>>

\* ═════════════════════════════════════════════════════════════════════════
\*  lib/TuyaSpecificClusterDevice.js : _sendTuyaDatapoint
\* ═════════════════════════════════════════════════════════════════════════

\* Math.pow(2, attempt)
RECURSIVE Pow2(_)
Pow2(n) == IF n = 0 THEN 1 ELSE 2 * Pow2(n - 1)

BackoffDelayLinear(baseDelay, attempt) == baseDelay * (attempt + 1)

\* const delay = baseDelay * Math.pow(2, attempt)
BackoffDelay(baseDelay, attempt) == baseDelay * Pow2(attempt)

LoopContinuesStrict(attempt, maxRetries) == attempt < maxRetries

\* the loop test of  for (let attempt = 0; attempt <= maxRetries; attempt++)
LoopContinues(attempt, maxRetries) == attempt <= maxRetries

WaitBeforeNextAlways(attempt, maxRetries) == attempt <= maxRetries

\* if (attempt < maxRetries) { ...await setTimeout(delay)... }   ("Don't retry if last attempt")
WaitBeforeNext(attempt, maxRetries) == attempt < maxRetries

\* attempt++ and the loop test; leaving the loop reaches  throw lastError
SendLoopNext(k, err) ==
  /\ sd_attempt' = k + 1
  /\ IF LoopContinues(k + 1, sd_maxRetries)
       THEN sd_pc' = "loop" /\ sd_thrown' = sd_thrown
       ELSE sd_pc' = "thrown" /\ sd_thrown' = err

\* the catch block of attempt k: remember the error, then wait or go on with the loop
SendCatch(k, kind) ==
  LET err == [attempt |-> k, kind |-> kind] IN
  /\ sd_lastError' = err
  /\ sd_log' = Append(sd_log, kind)
  /\ IF WaitBeforeNext(k, sd_maxRetries)
       THEN /\ sd_pc' = "wait"
            /\ sd_waits' = Append(sd_waits, BackoffDelay(sd_baseDelay, k))
            /\ UNCHANGED <<sd_thrown, sd_attempt>>
       ELSE /\ sd_waits' = sd_waits
            /\ SendLoopNext(k, err)

\* for (attempt ...; attempt <= maxRetries; ...) try { readiness check; await datapoint(...) }
SendAttempt(ready) ==
  /\ UNCHANGED <<cmdVars, availVars, extVars>>
  /\ sd_pc = "loop"
  /\ IF ready
       THEN /\ sd_pc' = "tx"
            /\ transactionID' = transactionID + 1
            /\ sd_txCount' = sd_txCount + 1
            /\ UNCHANGED <<sd_lastError, sd_thrown, sd_log, sd_waits>>
            /\ sd_attempt' = sd_attempt
       ELSE /\ SendCatch(sd_attempt, "notready")
            /\ UNCHANGED <<transactionID, sd_txCount>>
  /\ UNCHANGED <<sd_maxRetries, sd_baseDelay>>

\* the awaited tuya.datapoint(...) settles: resolved (return) or rejected (catch)
SendTxSettle(ok) ==
  /\ UNCHANGED <<cmdVars, availVars, extVars>>
  /\ sd_pc = "tx"
  /\ IF ok
       THEN /\ sd_pc' = "returned"
            /\ sd_log' = Append(sd_log, "ok")
            /\ UNCHANGED <<sd_lastError, sd_thrown, sd_waits, sd_attempt>>
       ELSE SendCatch(sd_attempt, "transport")
  /\ UNCHANGED <<sd_maxRetries, sd_baseDelay, transactionID, sd_txCount>>

\* the setTimeout of the backoff fires: attempt++ and back to the loop test
SendWaitDone ==
  /\ UNCHANGED <<cmdVars, availVars, extVars>>
  /\ sd_pc = "wait"
  /\ SendLoopNext(sd_attempt, sd_lastError)
  /\ UNCHANGED <<sd_maxRetries, sd_baseDelay, sd_lastError, sd_log,
                 sd_txCount, sd_waits, transactionID>>

\* entry of _sendTuyaDatapoint: the parameters are bound, let lastError, attempt = 0
SendStart(mr, bd) ==
  /\ sd_pc \in {"idle", "returned", "thrown"}
  /\ transactionID + mr + 1 <= MaxTransactions
  /\ sd_pc' = "loop"
  /\ sd_maxRetries' = mr
  /\ sd_baseDelay' = bd
  /\ sd_attempt' = 0
  /\ sd_lastError' = NoError
  /\ sd_thrown' = NoError
  /\ sd_log' = <<>>
  /\ sd_waits' = <<>>
  /\ sd_txCount' = 0
  /\ UNCHANGED transactionID

\* _sendTuyaDatapoint(dp, datatype, data, maxRetries, baseDelay) is called
SendTuyaDatapoint(mr, bd) ==
  /\ UNCHANGED <<cmdVars, availVars, extVars>>
  /\ SendStart(mr, bd)

SendInit ==
  /\ sd_pc = "idle"
  /\ sd_maxRetries = 2
  /\ sd_baseDelay = 300
  /\ sd_attempt = 0
  /\ sd_lastError = NoError
  /\ sd_thrown = NoError
  /\ sd_log = <<>>
  /\ sd_waits = <<>>
  /\ sd_txCount = 0
  /\ transactionID = 0

SendNext ==
  \/ \E mr \in 0..MaxRetriesBound, bd \in BaseDelays : SendTuyaDatapoint(mr, bd)
  \/ \E ready \in BOOLEAN : SendAttempt(ready)
  \/ \E ok \in BOOLEAN : SendTxSettle(ok)
  \/ SendWaitDone


\* ═════════════════════════════════════════════════════════════════════════
\*  NovaDigital 3-gang device.js : _debouncedOnCapabilityOnoff,
\*  _executeOnCapabilityOnoff, _withRetry, _sleepWithAbort
\*  (the 1-gang driver carries the same code)
\* ═════════════════════════════════════════════════════════════════════════

\* the virtual devices (gangs) of one physical node
Gangs == 1..NumGangs
Invs == 1..MaxInv
RetryStages == {"off", "balanced", "max"}

SleepBusyMs == 100        \* await this._sleep(100)
DebounceMs == 300         \* now - this._lastCommandTime < 300
RedispatchMs == 50        \* setTimeout(..., 50) in finally
PendingMaxAgeMs == 5000   \* Date.now() - pending.time < 5000

\* all timer values of the command path are multiples of the shortest one
TimeStep == RedispatchMs
\* Date.now() when the model starts: far from _lastCommandTime = 0
StartTime == 2 * DebounceMs
MaxNow == StartTime + MaxTicks * TimeStep

NoPending == [value |-> FALSE, time |-> -1, cmd |-> 0]

NoInv == [pc |-> "none", dev |-> 0, value |-> FALSE, cmd |-> 0, time |-> 0, wake |-> 0,
          i |-> 0, aborted |-> FALSE, woken |-> FALSE, tx |-> 0, outcome |-> "none",
          busyAtArrival |-> FALSE, inflightAtArrival |-> FALSE, inWindow |-> FALSE,
          sameAsLast |-> FALSE, abortedInFlight |-> FALSE, successPath |-> FALSE,
          txAtAbort |-> -1, executed |-> FALSE, failedAt |-> -1, waits |-> 0,
          delayMs |-> -1, gap |-> -1, txFailed |-> FALSE]

\* values of the setting retry_stage: the three of the dropdown, none, and two that the
\* table does not name, one of them the name of a member every object inherits
RetryStageSettings == RetryStages \cup {"", "turbo", "constructor"}

\* String(settings.retry_stage || 'balanced')
Stage(setting) == IF setting = "" THEN "balanced" ELSE setting

\* members of Object.prototype, which { off, balanced, max }[stage] finds as well
ObjectPrototypeKeys == {"constructor", "toString", "valueOf", "hasOwnProperty"}

\* policy.retries and policy.delayMs of a policy that has neither: every comparison
\* with undefined (i <= retries, i < retries, retries > 0, delayMs > 0) is false, as it is
\* with -1 for the counts compared here
UndefinedNumber == -1

\* the policy table of _withRetry, with its  || { retries: 2, delayMs: 350 }  default:
\* the lookup of an inherited member gives a function, which is truthy and has no
\* retries and no delayMs
Policy(stage) ==
  CASE stage = "off"      -> [retries |-> 0, delayMs |-> 0]
    [] stage = "balanced" -> [retries |-> 2, delayMs |-> 350]
    [] stage = "max"      -> [retries |-> 5, delayMs |-> 600]
    [] stage \in ObjectPrototypeKeys ->
         [retries |-> UndefinedNumber, delayMs |-> UndefinedNumber]
    [] OTHER              -> [retries |-> 2, delayMs |-> 350]

DebouncedNever(t, lastCommandTime) == FALSE

\* if (now - this._lastCommandTime < 300) { "Command debounced"; return }
Debounced(t, lastCommandTime) == t - lastCommandTime < DebounceMs

\* invocations whose transmit (setOn / setOff) is awaited
InFlight(I) == {p \in Invs : I[p].pc = "tx"}
\* invocations inside _executeOnCapabilityOnoff
Executing(I, d) == {p \in Invs : I[p].dev = d /\ I[p].pc \in {"tx", "backoff"}}

\* AbortController.abort() on the controller of invocation a (0 = null): the signal is
\* raised and the 'abort' listener of a pending _sleepWithAbort resolves the sleep at once
Abort(I, a) ==
  IF a = 0 \/ I[a].aborted THEN I
  ELSE [I EXCEPT ![a].aborted = TRUE,
                 ![a].abortedInFlight = (I[a].pc \in {"tx", "backoff"}),
                 ![a].txAtAbort = I[a].tx,
                 ![a].woken = (I[a].pc = "backoff")]

\* an invocation that has returned: its locals are gone, what it did remains
Done(rec, outcome) ==
  [rec EXCEPT !.pc = "done", !.outcome = outcome, !.woken = FALSE,
              !.time = 0, !.wake = 0, !.i = 0, !.failedAt = -1]

\* finally { _commandLock = false; clear _commandAbort if ours; re-dispatch a pending command }
Finally(S, p, outcome) ==
  LET d == S.inv[p].dev
      pending == S.dev[d].pendingCommand
      D1 == [S.dev EXCEPT ![d].commandLock = FALSE,
                          ![d].commandAbort = IF @ = p THEN 0 ELSE @,
                          ![d].pendingCommand = NoPending]
      T1 == IF pending # NoPending /\ now - pending.time < PendingMaxAgeMs
              THEN S.timers \cup {[dev |-> d, value |-> pending.value, cmd |-> pending.cmd,
                                   due |-> now + RedispatchMs]}
              ELSE S.timers
  IN [inv |-> [S.inv EXCEPT ![p] = Done(@, outcome)], dev |-> D1, timers |-> T1]

\* fn(): if (ac.signal.aborted) throw 'aborted'; await onOff.setOn() / setOff()
\* reached from the loop head of _withRetry, which tests signal.aborted first
Attempt(S, p) ==
  IF S.inv[p].aborted
    THEN Finally(S, p, "aborted")
    ELSE [S EXCEPT !.inv[p].pc = "tx", !.inv[p].tx = @ + 1, !.inv[p].woken = FALSE,
                   !.dev[S.inv[p].dev].framed = TRUE,
                   !.dev[S.inv[p].dev].lastFrameValue = S.inv[p].value,
                   !.inv[p].gap = IF S.inv[p].failedAt >= 0 THEN now - S.inv[p].failedAt
                                  ELSE @]

\* i++ and the loop test of _withRetry; leaving the loop throws lastErr, which
\* _executeOnCapabilityOnoff counts as a failure unless the signal is aborted
NextIteration(S, p) ==
  LET d == S.inv[p].dev
      S1 == [S EXCEPT !.inv[p].i = @ + 1] IN
  IF S1.inv[p].i <= Policy(Stage(retry_stage)).retries
    THEN Attempt(S1, p)
    ELSE IF S1.inv[p].aborted
           THEN Finally(S1, p, "aborted")
           ELSE Finally([S1 EXCEPT !.dev[d].consecutiveFailures = @ + 1], p, "failed")

\* _executeOnCapabilityOnoff up to its first await
Execute(S, p) ==
  LET d == S.inv[p].dev
      I1 == Abort(S.inv, S.dev[d].commandAbort)
      D1 == [S.dev EXCEPT ![d].commandLock = TRUE,
                          ![d].lastCommandTime = now,
                          ![d].lastCommandValue = S.inv[p].value,
                          ![d].pendingCommand = NoPending,
                          ![d].commandAbort = p]
      S1 == [inv |-> [I1 EXCEPT ![p].executed = TRUE, ![p].aborted = FALSE],
             dev |-> D1, timers |-> S.timers]
  IN \* for (let i = 0; i <= policy.retries; ...): without a first iteration lastErr is
     \* thrown as undefined, and error.message in the catch block throws in turn
     IF 0 <= Policy(Stage(retry_stage)).retries THEN Attempt(S1, p)
     ELSE Finally(S1, p, "threw")

\* _debouncedOnCapabilityOnoff(value) up to its first await, run as invocation p
Arrive(S, p, d, v, cmd) ==
  LET D == S.dev[d]
      rec == [NoInv EXCEPT !.dev = d, !.value = v, !.cmd = cmd, !.time = now,
                !.busyAtArrival = D.commandLock,
                !.inflightAtArrival = (Executing(S.inv, d) # {}),
                !.inWindow = (now - D.lastCommandTime < DebounceMs),
                !.sameAsLast = (D.lastCommandTime > 0 /\ D.lastCommandValue = v)]
      I0 == [S.inv EXCEPT ![p] = rec]
  IN IF D.commandLock
       THEN [inv |-> [Abort(I0, D.commandAbort) EXCEPT ![p].pc = "sleep",
                                                       ![p].wake = now + SleepBusyMs],
             dev |-> [S.dev EXCEPT ![d].commandAbort = 0,
                                   ![d].pendingCommand = [value |-> v, time |-> now, cmd |-> cmd]],
             timers |-> S.timers]
       ELSE IF Debounced(now, D.lastCommandTime)
              THEN [S EXCEPT !.inv = [I0 EXCEPT ![p] = Done(@, "debounced")]]
              ELSE Execute([S EXCEPT !.inv = I0], p)

State == [inv |-> inv, dev |-> dev, timers |-> timers]
Becomes(S) == inv' = S.inv /\ dev' = S.dev /\ timers' = S.timers

\* a resolved _sleepWithAbort is resumed before any timer or I/O callback runs
NoMicrotask == \A p \in Invs : ~inv[p].woken
FreeInv == {p \in Invs : inv[p].pc = "none" /\ \A q \in Invs : q < p => inv[q].pc # "none"}

\* the capability listener fires: the user sets onoff of gang d to v
OnCapabilityOnoff(d, v) ==
  /\ NoMicrotask
  /\ \E p \in FreeInv : Becomes(Arrive(State, p, d, v, p))
  /\ UNCHANGED <<now, retry_stage, sendVars, availVars, extVars>>

\* the 50ms timer armed in finally fires: _debouncedOnCapabilityOnoff(pending.value)
Redispatch(t) ==
  /\ NoMicrotask
  /\ t \in timers /\ now >= t.due
  /\ \E p \in FreeInv :
       Becomes(Arrive([State EXCEPT !.timers = @ \ {t}], p, t.dev, t.value, t.cmd))
  /\ UNCHANGED <<now, retry_stage, sendVars, availVars, extVars>>

\* await this._sleep(100) is over: run the command if it is still the pending one
SleepDone(p) ==
  /\ NoMicrotask
  /\ inv[p].pc = "sleep" /\ now >= inv[p].wake
  /\ LET pending == dev[inv[p].dev].pendingCommand IN
       IF pending # NoPending /\ pending.time = inv[p].time
         THEN Becomes(Execute(State, p))
         ELSE Becomes([State EXCEPT !.inv[p] = Done(@, "dropped")])
  /\ UNCHANGED <<now, retry_stage, sendVars, availVars, extVars>>

\* the awaited setOn()/setOff() settles.  Resolved: _withRetry returns true and the
\* success path runs.  Rejected: the catch block of _withRetry.
TxSettle(p, ok) ==
  /\ NoMicrotask
  /\ inv[p].pc = "tx"
  /\ LET pol == Policy(Stage(retry_stage)) IN
       IF ok
         THEN Becomes(Finally([State EXCEPT !.inv[p].successPath = TRUE], p, "success"))
         ELSE IF inv[p].aborted
                THEN Becomes(Finally([State EXCEPT !.inv[p].txFailed = TRUE], p, "aborted"))
                ELSE IF inv[p].i < pol.retries /\ pol.delayMs > 0
                       THEN Becomes([State EXCEPT !.inv[p].pc = "backoff",
                                                  !.inv[p].wake = now + pol.delayMs,
                                                  !.inv[p].failedAt = now,
                                                  !.inv[p].txFailed = TRUE,
                                                  !.inv[p].waits = @ + 1,
                                                  !.inv[p].delayMs = pol.delayMs])
                       ELSE Becomes(NextIteration([State EXCEPT !.inv[p].failedAt = now,
                                                                !.inv[p].txFailed = TRUE],
                                                  p))
  /\ UNCHANGED <<now, retry_stage, sendVars, availVars, extVars>>

\* _sleepWithAbort is over (timer, or abort listener): "Aborted after sleep" or next attempt
BackoffDone(p) ==
  /\ inv[p].pc = "backoff"
  /\ inv[p].woken \/ (NoMicrotask /\ now >= inv[p].wake)
  /\ IF inv[p].aborted
       THEN Becomes(Finally(State, p, "aborted"))
       ELSE Becomes(NextIteration(State, p))
  /\ UNCHANGED <<now, retry_stage, sendVars, availVars, extVars>>

\* time passes; timers fire when they are due
TimerDue ==
  \/ \E t \in timers : t.due <= now
  \/ \E p \in Invs : inv[p].pc \in {"sleep", "backoff"} /\ inv[p].wake <= now
AdvanceTime ==
  /\ NoMicrotask /\ ~TimerDue
  /\ now < MaxNow
  /\ now' = now + TimeStep
  /\ UNCHANGED <<inv, dev, timers, retry_stage, sendVars, availVars, extVars>>

CmdInit ==
  /\ now = StartTime
  /\ inv = [p \in Invs |-> NoInv]
  /\ dev = [d \in Gangs |-> [commandLock |-> FALSE, commandAbort |-> 0,
                             pendingCommand |-> NoPending, lastCommandTime |-> 0,
                             lastCommandValue |-> FALSE, consecutiveFailures |-> 0,
                             framed |-> FALSE, lastFrameValue |-> FALSE]]
  /\ timers = {}
  /\ retry_stage \in RetryStages

CmdNext ==
  \/ \E d \in Gangs, v \in BOOLEAN : OnCapabilityOnoff(d, v)
  \/ \E t \in timers : Redispatch(t)
  \/ \E p \in Invs : SleepDone(p)
  \/ \E p \in Invs, ok \in BOOLEAN : TxSettle(p, ok)
  \/ \E p \in Invs : BackoffDone(p)
  \/ AdvanceTime

\* the times at which a timer of the command path is due
DueTimes ==
  {t.due : t \in timers} \cup {inv[p].wake : p \in {q \in Invs : inv[q].pc \in {"sleep", "backoff"}}}

\* time passes until the next timer of the command path is due
AdvanceToDue ==
  /\ NoMicrotask /\ ~TimerDue
  /\ DueTimes # {}
  /\ now' = CHOOSE t \in DueTimes : \A u \in DueTimes : t <= u
  /\ UNCHANGED <<inv, dev, timers, retry_stage, sendVars, availVars, extVars>>

\* the command path under every value of the setting, with commands of the user arriving
\* when a timer fires or a transmit settles
RetryInit ==
  /\ now = StartTime
  /\ inv = [p \in Invs |-> NoInv]
  /\ dev = [d \in Gangs |-> [commandLock |-> FALSE, commandAbort |-> 0,
                             pendingCommand |-> NoPending, lastCommandTime |-> 0,
                             lastCommandValue |-> FALSE, consecutiveFailures |-> 0,
                             framed |-> FALSE, lastFrameValue |-> FALSE]]
  /\ timers = {}
  /\ retry_stage \in RetryStageSettings

RetryNext ==
  \/ \E d \in Gangs, v \in BOOLEAN : OnCapabilityOnoff(d, v)
  \/ \E t \in timers : Redispatch(t)
  \/ \E p \in Invs : SleepDone(p)
  \/ \E p \in Invs, ok \in BOOLEAN : TxSettle(p, ok)
  \/ \E p \in Invs : BackoffDone(p)
  \/ AdvanceToDue


\* ═════════════════════════════════════════════════════════════════════════
\*  AvailabilityManager.js : _markAlive, _startWatchdog, _markAllAvailable,
\*  _markAllUnavailable, _getSiblings, install
\*  NovaDigital 3-gang / Power Strip onNodeInit: who owns the manager
\* ═════════════════════════════════════════════════════════════════════════

\* driver.getDevices(): the three virtual devices of the node and a device of another node
DriverDevices == <<"main", "secondSwitch", "thirdSwitch", "other">>
Devs == {DriverDevices[i] : i \in 1..Len(DriverDevices)}
\* getData() of each device
DeviceData(d) ==
  IF d = "other" THEN [ieeeAddress |-> "ieeeB", token |-> "tokenB"]
                 ELSE [ieeeAddress |-> "ieeeA", token |-> "tokenA"]
\* the manager is created by the main device only: this.device
Owner == "main"
NodeDevices == {d \in Devs : DeviceData(d).ieeeAddress = DeviceData(Owner).ieeeAddress}

Timeout == 600000         \* options.timeout: 10 * 60 * 1000
\* the clock moves by one millisecond or by a whole timeout
ClockSteps == {1, Timeout}
AliveProcs == 1..MaxAlive

\* filter of a sequence, keeping the order (Array.prototype.filter)
RECURSIVE FilterSeq(_, _)
FilterSeq(seq, keep) ==
  IF seq = <<>> THEN <<>>
  ELSE (IF Head(seq) \in keep THEN <<Head(seq)>> ELSE <<>>) \o FilterSeq(Tail(seq), keep)

ResolveSiblingsSelfOnly(data, bad, d) == <<d>>

\* _getSiblings() of this.device = d, where data[x] is x.getData() and getData() throws for
\* the devices in bad: same ieeeAddress, else same token, else the device itself
ResolveSiblings(data, bad, d) ==
  LET byIeee  == FilterSeq(DriverDevices,
                   {x \in Devs \ bad : data[x].ieeeAddress = data[d].ieeeAddress})
      byToken == FilterSeq(DriverDevices,
                   {x \in Devs \ bad : data[x].token = data[d].token})
  IN IF d \in bad THEN <<d>>
     ELSE IF data[d].ieeeAddress # "" /\ Len(byIeee) > 0 THEN byIeee
     ELSE IF data[d].token # "" /\ Len(byToken) > 0 THEN byToken
     ELSE <<d>>

\* _getSiblings() of the manager of the node
GetSiblings(d) == ResolveSiblings([x \in Devs |-> DeviceData(x)], {}, d)

\* _isEnabled(): settings[settingKey] !== false
IsEnabled == health_monitoring_enabled

IdleExceedsOrEqual(idle, timeout) == idle >= timeout

\* idle > this.options.timeout
IdleExceeds(idle, timeout) == idle > timeout

\* position in the sibling list of the first device at or after `from` whose
\* getAvailable() equals `want`; 0 when the loop runs to its end without an await
RECURSIVE NextWith(_, _, _, _)
NextWith(sibs, av, from, want) ==
  IF from > Len(sibs) THEN 0
  ELSE IF av[sibs[from]] = want THEN from
  ELSE NextWith(sibs, av, from + 1, want)

Elems(sibs, lo, hi) == {sibs[i] : i \in {j \in 1..Len(sibs) : lo <= j /\ j <= hi}}

IdleAlive == [pc |-> "idle", at |-> 0, ownerAvailable |-> TRUE, idx |-> 0, sibs |-> <<>>,
              restored |-> {}, skipped |-> {}]
IdleTick == [pc |-> "idle", n |-> 0, at |-> 0, lastSeen |-> 0, enabled |-> FALSE,
             ownerAvailable |-> FALSE, idx |-> 0, sibs |-> <<>>, marked |-> {}]
NoEvent == [dev |-> "none", allUnavailable |-> FALSE, recorded |-> FALSE]
NoFault == [site |-> "none", by |-> "none", outcome |-> "none", ticksAfter |-> 0]

\* the host calls of the tick and of _markAlive that may throw or reject:
\* setStoreValue, getStoreValue, getSettings (in _isEnabled), getData / getDevices
\* (in _getSiblings), setAvailable / setUnavailable, getAvailable
FaultSites ==
  {"storeWrite", "storeRead", "isEnabled", "siblings", "setAvailability", "getAvailable"}

FaultOutcomeNoOuterTry(site) == IF site = "getAvailable" THEN "escape" ELSE "continue"

\* where the error of a failing call ends: "continue" when it is caught at the call
\* (.catch(() => {}), the try/catch around getStoreValue, inside _isEnabled and inside
\* _getSiblings) and the handler goes on with the fallback value; "abandon" when it is
\* caught by the try/catch around the whole tick / the whole _markAlive, which ends the
\* handler; "escape" when it would leave the handler
FaultOutcome(site) == IF site = "getAvailable" THEN "abandon" ELSE "continue"

\* the failures the next host calls may show
FaultsAt(sites) == IF faultsLeft > 0 THEN {"none"} \cup sites ELSE {"none"}

\* a call failed at site f in handler `by`; an error that leaves an async handler is an
\* unhandled rejection, which ends the app process and its interval timer with it
Faulted(f, by) ==
  IF f = "none"
    THEN UNCHANGED <<faultsLeft, lastFault, watchdog>>
    ELSE /\ faultsLeft' = faultsLeft - 1
         /\ lastFault' = [site |-> f, by |-> by, outcome |-> FaultOutcome(f), ticksAfter |-> 0]
         /\ watchdog' = (watchdog /\ FaultOutcome(f) # "escape")

\* _markAllAvailable(): the for loop over the resolved siblings from position `from` up
\* to its next await (sibling.setAvailable(), which rejects when f says so) or to its end
RestoreFrom(A, k, from, f) ==
  LET sibs == A[k].sibs
      j == NextWith(sibs, available, from, FALSE) IN
  IF j = 0
    THEN /\ f = "none"
         /\ alive' = [A EXCEPT ![k].pc = "done", ![k].idx = 0, ![k].at = 0, ![k].sibs = <<>>,
                               ![k].skipped = @ \cup Elems(sibs, from, Len(sibs))]
         /\ available' = available
    ELSE /\ alive' = [A EXCEPT ![k].pc = "restoring", ![k].idx = j,
                               ![k].restored = IF f = "none" THEN @ \cup {sibs[j]} ELSE @,
                               ![k].skipped = @ \cup Elems(sibs, from, j - 1)]
         /\ available' = IF f = "none" THEN [available EXCEPT ![sibs[j]] = TRUE]
                                       ELSE available

\* _markAllUnavailable(reason): the for loop from `from` up to its next await
\* (sibling.setUnavailable(reason), which rejects when f says so) or to its end
MarkFrom(T, from, f) ==
  LET sibs == T.sibs
      j == NextWith(sibs, available, from, TRUE) IN
  IF j = 0
    THEN /\ f = "none"
         /\ tick' = [T EXCEPT !.pc = "idle", !.idx = 0, !.sibs = <<>>]
         /\ available' = available
    ELSE /\ tick' = [T EXCEPT !.pc = "cascade", !.idx = j, !.marked = @ \cup {sibs[j]}]
         /\ available' = IF f = "none" THEN [available EXCEPT ![sibs[j]] = FALSE]
                                       ELSE available

\* who reaches _markAlive when a frame or report for virtual device d arrives:
\* Cluster0 hooks node.handleFrame, so every frame of the node does; Cluster6 injects
\* _markAliveFromAvailability into this.device, and the handlers of every virtual
\* device call  this._markAliveFromAvailability?.(source)  on themselves
ReachesMarkAlive(d) ==
  /\ hook
  /\ d \in NodeDevices
  /\ strategy = "Cluster6" => d = Owner

\* an inbound frame / attribute report / physical button event for device d;
\* _markAlive up to its first await: setStoreValue('last_seen_ts', Date.now())
Activity(d) ==
  /\ d \in NodeDevices
  /\ event' = [dev |-> d,
               allUnavailable |-> (\A x \in NodeDevices : ~available[x]),
               recorded |-> ReachesMarkAlive(d)]
  /\ IF ReachesMarkAlive(d)
       THEN \E k \in AliveProcs, f \in FaultsAt({"storeWrite"}) :
              /\ alive[k].pc \in {"idle", "done"}
              /\ \A j \in AliveProcs : j < k => alive[j].pc \notin {"idle", "done"}
              /\ alive' = [alive EXCEPT ![k] = [IdleAlive EXCEPT !.pc = "stored", !.at = now]]
              /\ last_seen_ts' = IF f = "none" THEN now ELSE last_seen_ts
              /\ Faulted(f, "alive")
       ELSE UNCHANGED <<alive, last_seen_ts, faultsLeft, lastFault, watchdog>>
  /\ UNCHANGED <<strategy, handlesSetting, health_monitoring_enabled, installed, hook, available,
                 tick, a_steps, now, sendVars, inv, dev, timers, retry_stage, extVars>>

\* _markAlive after the store write: if (!this.device.getAvailable()) _markAllAvailable()
MarkAliveCheck(k) ==
  /\ alive[k].pc = "stored"
  /\ \E f \in FaultsAt({"getAvailable", "siblings", "setAvailability"}) :
       /\ Faulted(f, "alive")
       /\ IF f = "getAvailable"
            THEN /\ alive' = [alive EXCEPT ![k].pc = "done", ![k].at = 0]
                 /\ available' = available
          ELSE IF available[Owner]
            THEN /\ f = "none"
                 /\ alive' = [alive EXCEPT ![k].pc = "done", ![k].at = 0,
                                           ![k].ownerAvailable = TRUE]
                 /\ available' = available
          ELSE LET sibs == IF f = "siblings" THEN <<Owner>> ELSE GetSiblings(Owner)
                   A1 == [alive EXCEPT ![k].ownerAvailable = FALSE, ![k].sibs = sibs]
               IN RestoreFrom(A1, k, 1, IF f = "siblings" THEN "none" ELSE f)
  /\ UNCHANGED <<strategy, handlesSetting, health_monitoring_enabled, installed, hook,
                 last_seen_ts, tick, event, a_steps, now, sendVars, inv, dev, timers, retry_stage, extVars>>

\* await sibling.setAvailable() is over: the loop of _markAllAvailable goes on
MarkAliveResume(k) ==
  /\ alive[k].pc = "restoring"
  /\ \E f \in FaultsAt({"setAvailability"}) :
       /\ Faulted(f, "alive")
       /\ RestoreFrom(alive, k, alive[k].idx + 1, f)
  /\ UNCHANGED <<strategy, handlesSetting, health_monitoring_enabled, installed, hook,
                 last_seen_ts, tick, event, a_steps, now, sendVars, inv, dev, timers, retry_stage, extVars>>

\* the setInterval callback of _startWatchdog, up to its first await on the host
WatchdogTick ==
  /\ watchdog
  /\ tick.pc = "idle"
  /\ \E f \in FaultsAt(FaultSites) :
       LET enabled == IF f = "isEnabled" THEN TRUE ELSE IsEnabled
           lastSeen == IF f = "storeRead" THEN 0 ELSE last_seen_ts
           T == [IdleTick EXCEPT !.n = 1, !.at = now, !.lastSeen = lastSeen,
                                 !.enabled = enabled, !.ownerAvailable = available[Owner]]
           idle == now - lastSeen IN
       /\ IF f = "none"
            THEN /\ UNCHANGED <<faultsLeft, watchdog>>
                 /\ lastFault' = IF lastFault.by = "tick"
                                   THEN [lastFault EXCEPT !.ticksAfter = 1] ELSE lastFault
            ELSE Faulted(f, "tick")
       /\ IF ~enabled
            THEN f = "none" /\ tick' = T /\ UNCHANGED <<available, last_seen_ts, event>>
          ELSE IF lastSeen = 0
            THEN /\ f \in {"none", "isEnabled", "storeRead", "storeWrite"}
                 /\ tick' = T
                 /\ last_seen_ts' = IF f = "storeWrite" THEN last_seen_ts ELSE now
                 /\ UNCHANGED <<available, event>>
          ELSE IF f = "getAvailable"
            THEN tick' = T /\ UNCHANGED <<available, last_seen_ts, event>>
          ELSE IF available[Owner] /\ IdleExceeds(idle, Timeout)
            THEN /\ f \in {"none", "isEnabled", "siblings", "setAvailability"}
                 /\ MarkFrom([T EXCEPT !.sibs = IF f = "siblings" THEN <<Owner>>
                                                ELSE GetSiblings(Owner)],
                             1, IF f = "setAvailability" THEN f ELSE "none")
                 /\ last_seen_ts' = last_seen_ts /\ event' = NoEvent
          ELSE /\ f \in {"none", "isEnabled"}
               /\ tick' = T /\ UNCHANGED <<available, last_seen_ts, event>>
  /\ UNCHANGED <<strategy, handlesSetting, health_monitoring_enabled, installed, hook,
                 alive, a_steps, now, sendVars, inv, dev, timers, retry_stage, extVars>>

\* await sibling.setUnavailable(reason) is over: the loop of _markAllUnavailable goes on
TickResume ==
  /\ tick.pc = "cascade"
  /\ \E f \in FaultsAt({"setAvailability"}) :
       /\ Faulted(f, "tick")
       /\ MarkFrom(tick, tick.idx + 1, f)
  /\ UNCHANGED <<strategy, handlesSetting, health_monitoring_enabled, installed, hook,
                 last_seen_ts, alive, event, a_steps, now, sendVars, inv, dev, timers, retry_stage, extVars>>

\* Date.now() moves on; a host call (setStoreValue, setAvailable, setUnavailable) that
\* is awaited settles within milliseconds, never after a whole timeout
AdvanceClock(delta) ==
  /\ a_steps < MaxAvailSteps
  /\ delta > 1 => (tick.pc = "idle" /\ \A k \in AliveProcs : alive[k].pc \in {"idle", "done"})
  /\ a_steps' = a_steps + 1
  /\ now' = now + delta
  /\ UNCHANGED <<strategy, handlesSetting, health_monitoring_enabled, installed, watchdog, hook, available,
                 last_seen_ts, alive, tick, event, faultsLeft, lastFault, sendVars, inv, dev, timers, retry_stage, extVars>>

\* the user flips the monitoring setting of a device whose onSettings leaves the manager
\* alone (Power Strip, Smart Plug): only what _isEnabled() returns changes
SettingChanged ==
  /\ ~handlesSetting
  /\ health_monitoring_enabled' = ~health_monitoring_enabled
  /\ UNCHANGED <<strategy, handlesSetting, installed, watchdog, hook, available, last_seen_ts,
                 alive, tick, event, a_steps, faultsLeft, lastFault, now, sendVars, inv, dev,
                 timers, retry_stage, extVars>>

\* install() of either manager: refuses when installed or when _isEnabled() is false,
\* else puts the hook / the injected callback in place and starts the watchdog
Install(enabled) ==
  IF installed \/ ~enabled
    THEN UNCHANGED <<installed, watchdog, hook>>
    ELSE installed' = TRUE /\ watchdog' = TRUE /\ hook' = TRUE

\* uninstall(): _stopWatchdog(), _cleanup() (Cluster6 deletes the injected callback, the
\* Cluster0 hook on node.handleFrame stays), _installed = false
Uninstall ==
  IF ~installed
    THEN UNCHANGED <<installed, watchdog, hook>>
    ELSE installed' = FALSE /\ watchdog' = FALSE /\ hook' = (hook /\ strategy = "Cluster0")

\* the user changes health_monitoring_enabled to v on a device whose onSettings calls
\* install() / uninstall() (3-gang, 2-gang, 4-gang, dimmer, siren); the host stores the
\* new settings when onSettings has resolved, so that getSettings() inside the handler
\* returns the old settings (seesNew = FALSE); seesNew = TRUE is a host that stores first
OnSettings(v, seesNew) ==
  /\ handlesSetting
  /\ v # health_monitoring_enabled
  /\ IF v THEN Install(IF seesNew THEN v ELSE health_monitoring_enabled)
          ELSE Uninstall
  /\ health_monitoring_enabled' = v
  /\ UNCHANGED <<strategy, handlesSetting, available, last_seen_ts,
                 alive, tick, event, a_steps, faultsLeft, lastFault, now, sendVars, inv, dev,
                 timers, retry_stage, extVars>>

\* after onNodeInit of the three devices: only the main device has created and installed
\* a manager; install() does nothing when the setting disables monitoring; the 3-gang
\* main device then records 'boot' activity, other drivers start from the stored value
AvailInit ==
  /\ strategy \in {"Cluster0", "Cluster6"}
  /\ handlesSetting \in BOOLEAN
  /\ health_monitoring_enabled \in BOOLEAN
  /\ installed = health_monitoring_enabled
  /\ watchdog = health_monitoring_enabled
  /\ hook = health_monitoring_enabled
  /\ available = [d \in Devs |-> TRUE]
  /\ last_seen_ts \in (IF health_monitoring_enabled THEN {0, StartTime} ELSE {0})
  /\ alive = [k \in AliveProcs |-> IdleAlive]
  /\ tick = IdleTick
  /\ event = NoEvent
  /\ a_steps = 0
  /\ faultsLeft = 0
  /\ lastFault = NoFault

AvailNext ==
  \/ \E d \in Devs : Activity(d)
  \/ \E k \in AliveProcs : MarkAliveCheck(k)
  \/ \E k \in AliveProcs : MarkAliveResume(k)
  \/ WatchdogTick
  \/ TickResume
  \/ \E delta \in ClockSteps : AdvanceClock(delta)
  \/ SettingChanged
  \/ \E v \in BOOLEAN, seesNew \in BOOLEAN : OnSettings(v, seesNew)

\* the same manager on a host whose calls may fail: up to MaxFaults of the calls made by
\* the watchdog tick and by _markAlive throw or reject
AvailFaultInit ==
  /\ strategy = "Cluster6"
  /\ handlesSetting = FALSE
  /\ health_monitoring_enabled = TRUE
  /\ installed = TRUE
  /\ watchdog = TRUE
  /\ hook = TRUE
  /\ available = [d \in Devs |-> TRUE]
  /\ last_seen_ts = StartTime
  /\ alive = [k \in AliveProcs |-> IdleAlive]
  /\ tick = IdleTick
  /\ event = NoEvent
  /\ a_steps = 0
  /\ faultsLeft = MaxFaults
  /\ lastFault = NoFault

AvailFaultNext ==
  \/ \E d \in Devs : Activity(d)
  \/ \E k \in AliveProcs : MarkAliveCheck(k)
  \/ \E k \in AliveProcs : MarkAliveResume(k)
  \/ WatchdogTick
  \/ TickResume
  \/ \E delta \in ClockSteps : AdvanceClock(delta)

\* ═════════════════════════════════════════════════════════════════════════
\*  AvailabilityManager.js : _getSiblings and the cascades, for every shape
\*  of getData() the driver's devices may carry
\* ═════════════════════════════════════════════════════════════════════════

\* getData() of a device: ieeeAddress and token, each possibly absent ("")
DataShapes ==
  { [ieeeAddress |-> "ieeeA", token |-> "tokenA"],
    [ieeeAddress |-> "",      token |-> "tokenA"],
    [ieeeAddress |-> "",      token |-> ""],
    [ieeeAddress |-> "ieeeB", token |-> "tokenA"],
    [ieeeAddress |-> "ieeeB", token |-> "tokenB"] }

SeqToSet(q) == {q[i] : i \in 1..Len(q)}

\* a cascade of the manager of device d starts: _markAllAvailable (want) or
\* _markAllUnavailable (~want) resolves the siblings (getData() throws for the devices
\* in bad) and runs its for loop up to the first await
SibGetSiblings(d, bad, want) ==
  /\ sib.pc \in {"idle", "done"}
  /\ LET sibs == ResolveSiblings(sib.data, bad, d)
         j == NextWith(sibs, sib.avail, 1, ~want) IN
       sib' = [sib EXCEPT !.device = d, !.bad = bad, !.want = want, !.result = sibs,
                          !.before = sib.avail,
                          !.pc = IF j = 0 THEN "done" ELSE "cascade",
                          !.idx = j,
                          !.touched = IF j = 0 THEN {} ELSE {sibs[j]},
                          !.avail = IF j = 0 THEN sib.avail
                                    ELSE [sib.avail EXCEPT ![sibs[j]] = want]]
  /\ UNCHANGED <<sendVars, cmdVars, availVars, nodeVars, bulkVars, routeVars, protoVars>>

\* await sibling.setAvailable() / setUnavailable(reason) is over: the for loop goes on
SibCascadeResume ==
  /\ sib.pc = "cascade"
  /\ LET j == NextWith(sib.result, sib.avail, sib.idx + 1, ~sib.want) IN
       sib' = [sib EXCEPT !.pc = IF j = 0 THEN "done" ELSE "cascade",
                          !.idx = j,
                          !.touched = IF j = 0 THEN @ ELSE @ \cup {sib.result[j]},
                          !.avail = IF j = 0 THEN @ ELSE [@ EXCEPT ![sib.result[j]] = sib.want]]
  /\ UNCHANGED <<sendVars, cmdVars, availVars, nodeVars, bulkVars, routeVars, protoVars>>

SibIdleState ==
  [pc |-> "idle", device |-> Owner, bad |-> {}, want |-> FALSE, result |-> <<>>,
   idx |-> 0, touched |-> {}, data |-> [x \in Devs |-> DeviceData(x)],
   avail |-> [x \in Devs |-> TRUE], before |-> [x \in Devs |-> TRUE]]

SibIdle == sib = SibIdleState

\* the devices of the driver carry any of the data shapes; all are available at first
SibInit ==
  \E data \in [Devs -> DataShapes] :
    sib = [SibIdleState EXCEPT !.data = data]

SibNext ==
  \/ \E bad \in {{}, {Owner}, {"secondSwitch"}}, want \in BOOLEAN :
        SibGetSiblings(Owner, bad, want)
  \/ SibCascadeResume

\* ═════════════════════════════════════════════════════════════════════════
\*  onNodeInit / onDeleted of the multi-gang drivers: which virtual device
\*  constructs an availability manager and starts a watchdog
\* ═════════════════════════════════════════════════════════════════════════

MultiGangDrivers ==
  {"NovaDigitalSwitch2Gang", "NovaDigitalSwitch3Gang", "NovaDigitalSwitch4Gang",
   "ZemismartSwitch6Gang", "MoesDimmer3Gang", "PowerStripDevice"}

\* the virtual devices of a node of each driver: the main device (no subDeviceId) and
\* one device per subDeviceId
VirtualDevices(driver) ==
  CASE driver = "NovaDigitalSwitch2Gang" -> {"main", "secondSwitch"}
    [] driver = "NovaDigitalSwitch3Gang" -> {"main", "secondSwitch", "thirdSwitch"}
    [] driver = "NovaDigitalSwitch4Gang" -> {"main", "secondGang", "thirdGang", "fourthGang"}
    [] driver = "ZemismartSwitch6Gang"   -> {"main", "secondGang", "thirdGang", "fourthGang",
                                             "fifthGang", "sixthGang"}
    [] driver = "MoesDimmer3Gang"        -> {"main", "secondGang", "thirdGang"}
    [] driver = "PowerStripDevice"       -> {"main", "socket2", "socket3", "socket4", "usb"}

\* does onNodeInit of virtual device d construct and install a manager: the 2-gang driver
\* does so on every instance, every other driver inside  if (this._isMainDevice)
CreatesManager(driver, d) ==
  IF driver = "NovaDigitalSwitch2Gang" THEN TRUE ELSE d = "main"

\* onNodeInit of virtual device d: new AvailabilityManager...(this, ...) and install(),
\* which starts the watchdog unless the setting disables monitoring
OnNodeInit(d) ==
  /\ d \in VirtualDevices(node.driver) \ node.inited
  /\ node' = [node EXCEPT
        !.inited = @ \cup {d},
        !.managers = IF CreatesManager(node.driver, d) THEN @ \cup {d} ELSE @,
        !.watchdogs = IF CreatesManager(node.driver, d) /\ node.enabled THEN @ \cup {d} ELSE @]
  /\ UNCHANGED <<sendVars, cmdVars, availVars, sibVars, bulkVars, routeVars, protoVars>>

\* onDeleted of virtual device d: if (this._availability) this._availability.uninstall()
OnDeleted(d) ==
  /\ d \in node.inited
  /\ node' = [node EXCEPT !.inited = @ \ {d}, !.managers = @ \ {d}, !.watchdogs = @ \ {d}]
  /\ UNCHANGED <<sendVars, cmdVars, availVars, sibVars, bulkVars, routeVars, protoVars>>

NodeIdleState ==
  [driver |-> "NovaDigitalSwitch3Gang", enabled |-> TRUE, inited |-> {}, managers |-> {},
   watchdogs |-> {}]

NodeIdle == node = NodeIdleState

\* a node of any multi-gang driver is paired, with monitoring enabled or disabled
NodeInit ==
  \E driver \in MultiGangDrivers, enabled \in BOOLEAN :
    node = [NodeIdleState EXCEPT !.driver = driver, !.enabled = enabled]

NodeNext ==
  \/ \E d \in VirtualDevices(node.driver) : OnNodeInit(d)
  \/ \E d \in VirtualDevices(node.driver) : OnDeleted(d)

\* ═════════════════════════════════════════════════════════════════════════
\*  TuyaSpecificClusterDevice.js : sendBulkCommands and the write methods
\* ═════════════════════════════════════════════════════════════════════════

BulkRetries == 2          \* writeBool(cmd.dp, cmd.value, 2, 200)
BulkBaseDelay == 200
MinBulkDelay == 150       \* Math.max(150, delayBetween)
MaxConsecutiveFails == 2  \* if (fails >= 2)

\* an element of the list that is no object (null / undefined)
NullCommand == [type |-> "null", dp |-> 0, valueOk |-> FALSE]

\* the commands a caller passes: a well-formed bool command, an enum command whose value
\* writeEnum rejects, a command of a type the switch does not know, and no object at all;
\* dp 0 stands for undefined
BulkCommandShapes ==
  { [type |-> "bool", dp |-> 1, valueOk |-> TRUE],
    [type |-> "enum", dp |-> 2, valueOk |-> FALSE],
    [type |-> "scene", dp |-> 3, valueOk |-> TRUE],
    NullCommand }

WriteTypes == {"bool", "enum", "data32", "string", "raw"}

BulkInputs == UNION {[1..n -> BulkCommandShapes] : n \in 0..MaxCmds}

\* delayBetween as passed: below, at and above the enforced minimum, and the default
DelaysBetween == {0, 150, 200, 500}

BulkDelayNoFloor(delayBetween) == delayBetween

\* const delay = Math.max(150, delayBetween)
BulkDelay(delayBetween) ==
  IF delayBetween > MinBulkDelay THEN delayBetween ELSE MinBulkDelay

AbortsAfterNever(fails) == FALSE

\* if (fails >= 2): the item is recorded as aborted and not attempted
AbortsAfter(fails) == fails >= MaxConsecutiveFails

\* fails = 0 after an item that succeeded
FailsAfterSuccess(fails) == 0

AbortsUpFrontNever(avail) == FALSE

\* if (!this.getAvailable()): the batch is aborted before the loop
AbortsUpFront(avail) == ~avail

\* an entry of the returned list; result is undefined for every write method
BulkResult(success, dp, error) == [success |-> success, dp |-> dp, error |-> error]

\* what the try block of an item throws before any datapoint is sent, "" when the write
\* method reaches _sendTuyaDatapoint
ThrowsBeforeSend(cmd) ==
  IF cmd.type \notin WriteTypes THEN "unknown type"
  ELSE IF ~cmd.valueOk THEN "invalid value"
  ELSE ""

BulkIdleState ==
  [pc |-> "idle", getAvailable |-> TRUE, commands |-> <<>>, delayBetween |-> 0,
   delay |-> 0, i |-> 0, fails |-> 0, results |-> <<>>, started |-> <<>>,
   transmitted |-> {}, waits |-> <<>>, tidAtCall |-> 0, params |-> {}]

\* the end of an attempted item B.i: the wait before the next item, or i++
BulkAfterItem(B) ==
  IF B.i < Len(B.commands)
    THEN [B EXCEPT !.pc = "wait", !.waits = Append(@, B.delay)]
    ELSE [B EXCEPT !.pc = "loop", !.i = @ + 1]

\* sendBulkCommands(commands, delayBetween) is called
SendBulkCommands(commands, delayBetween) ==
  /\ bulk.pc = "idle"
  /\ LET B == [bulk EXCEPT !.commands = commands, !.delayBetween = delayBetween,
                           !.tidAtCall = transactionID] IN
     IF Len(commands) = 0
       THEN bulk' = [B EXCEPT !.pc = "returned"]
     ELSE IF AbortsUpFront(bulk.getAvailable)
       THEN bulk' = [B EXCEPT !.pc = "returned",
                              !.results = [k \in 1..Len(commands) |->
                                 BulkResult(FALSE, commands[k].dp, "device unavailable")]]
     ELSE bulk' = [B EXCEPT !.pc = "loop", !.i = 1, !.fails = 0,
                            !.delay = BulkDelay(delayBetween)]
  /\ UNCHANGED <<sendVars, cmdVars, availVars, sibVars, nodeVars, routeVars, protoVars>>

\* the head of the for loop and the body of item i up to its first await
BulkItem ==
  /\ bulk.pc = "loop"
  /\ LET cmd == bulk.commands[bulk.i] IN
     IF bulk.i > Len(bulk.commands)
       THEN /\ bulk' = [bulk EXCEPT !.pc = "returned"]
            /\ UNCHANGED sendVars
     ELSE IF AbortsAfter(bulk.fails)
       THEN /\ bulk' = [bulk EXCEPT !.i = @ + 1,
                          !.results = Append(@, BulkResult(FALSE, cmd.dp,
                                                           "aborted: consecutive failures"))]
            /\ UNCHANGED sendVars
     ELSE IF cmd = NullCommand
       \* cmd.type throws inside try; cmd.dp throws inside the catch block
       THEN /\ bulk' = [bulk EXCEPT !.pc = "threw", !.started = Append(@, bulk.i)]
            /\ UNCHANGED sendVars
     ELSE IF ThrowsBeforeSend(cmd) # ""
       THEN /\ bulk' = BulkAfterItem([bulk EXCEPT
                          !.started = Append(@, bulk.i),
                          !.results = Append(@, BulkResult(FALSE, cmd.dp, ThrowsBeforeSend(cmd))),
                          !.fails = @ + 1])
            /\ UNCHANGED sendVars
     ELSE /\ bulk' = [bulk EXCEPT !.pc = "sending", !.started = Append(@, bulk.i),
                                  !.params = @ \cup {<<BulkRetries, BulkBaseDelay>>}]
          /\ SendStart(BulkRetries, BulkBaseDelay)
  /\ UNCHANGED <<cmdVars, availVars, sibVars, nodeVars, routeVars, protoVars>>

\* await this.writeBool(...) settles: results.push, fails = 0 / fails++
BulkItemDone ==
  /\ bulk.pc = "sending"
  /\ sd_pc \in {"returned", "thrown"}
  /\ LET cmd == bulk.commands[bulk.i]
         ok == sd_pc = "returned"
         B == [bulk EXCEPT
                 !.results = Append(@, BulkResult(ok, cmd.dp, IF ok THEN "" ELSE sd_thrown.kind)),
                 !.fails = IF ok THEN FailsAfterSuccess(@) ELSE @ + 1,
                 !.transmitted = IF sd_txCount > 0 THEN @ \cup {bulk.i} ELSE @]
     IN bulk' = BulkAfterItem(B)
  /\ sd_pc' = "idle"
  /\ sd_maxRetries' = 2
  /\ sd_baseDelay' = 300
  /\ sd_attempt' = 0
  /\ sd_lastError' = NoError
  /\ sd_thrown' = NoError
  /\ sd_log' = <<>>
  /\ sd_waits' = <<>>
  /\ sd_txCount' = 0
  /\ UNCHANGED <<transactionID, cmdVars, availVars, sibVars, nodeVars, routeVars, protoVars>>

\* the timer between two items fires: i++
BulkWaitDone ==
  /\ bulk.pc = "wait"
  /\ bulk' = [bulk EXCEPT !.pc = "loop", !.i = @ + 1]
  /\ UNCHANGED <<sendVars, cmdVars, availVars, sibVars, nodeVars, routeVars, protoVars>>

BulkIdle == bulk = BulkIdleState

BulkInit == \E avail \in BOOLEAN : bulk = [BulkIdleState EXCEPT !.getAvailable = avail]

BulkNext ==
  \/ \E commands \in BulkInputs, delayBetween \in DelaysBetween :
       SendBulkCommands(commands, delayBetween)
  \/ BulkItem
  \/ BulkItemDone
  \/ BulkWaitDone
  \/ \E ready \in BOOLEAN : SendAttempt(ready)
  \/ \E ok \in BOOLEAN : SendTxSettle(ok)
  \/ SendWaitDone

\* ═════════════════════════════════════════════════════════════════════════
\*  Tuya multi-gang drivers (NovaDigital 4-gang, Zemismart 6-gang, MOES 3-gang
\*  dimmer) : _setupTuyaListeners, _processDatapoint, _getNodeDevices, _isMyDp
\* ═════════════════════════════════════════════════════════════════════════

TuyaDrivers == {"NovaDigitalSwitch4Gang", "ZemismartSwitch6Gang", "MoesDimmer3Gang"}

\* subDeviceId of the virtual devices of one node, "" for the main device
SubDeviceIds(driver) ==
  CASE driver = "NovaDigitalSwitch4Gang" -> <<"", "secondGang", "thirdGang", "fourthGang">>
    [] driver = "ZemismartSwitch6Gang" ->
         <<"", "secondGang", "thirdGang", "fourthGang", "fifthGang", "sixthGang">>
    [] driver = "MoesDimmer3Gang" -> <<"", "secondGang", "thirdGang">>

\* this.driver.getDevices(): the devices of the node that reports (1) and two devices
\* of a second node of the same driver (2), in either order; a device is <<node, subDeviceId>>
DriverGetDevices(driver, otherFirst) ==
  LET mine == [k \in 1..Len(SubDeviceIds(driver)) |-> <<1, SubDeviceIds(driver)[k]>>]
      other == << <<2, "">>, <<2, "thirdGang">> >>
  IN IF otherFirst THEN other \o mine ELSE mine \o other

\* getData().ieeeAddress of device d: carried by every device, by the main devices only,
\* or by none ("" is undefined)
IeeeAddress(carried, d) ==
  IF carried = "all" \/ (carried = "main" /\ d[2] = "")
    THEN (IF d[1] = 1 THEN "ieeeA" ELSE "ieeeB")
    ELSE ""

GangNumberAlwaysFirst(subDeviceId) == 1

\* map[subDeviceId] || 1: the position of the gang
GangNumber(subDeviceId) ==
  CASE subDeviceId = "secondGang" -> 2
    [] subDeviceId = "thirdGang" -> 3
    [] subDeviceId = "fourthGang" -> 4
    [] subDeviceId = "fifthGang" -> 5
    [] subDeviceId = "sixthGang" -> 6
    [] OTHER -> 1

DP_POWER_ON_4GANG == 14
DP_POWER_ON_DIMMER == 16
DP_BACKLIGHT_DIMMER == 17
UndefinedDp == 0

\* the dps a frame may carry: the gangs, the settings, one that no driver knows (7), and
\* a frame without dp
Datapoints == {UndefinedDp, 1, 2, 3, 4, 5, 6, 7, 14, 16, 17}

\* the dps for which _isMyDp of an initialised device is true
\* (4-gang: _myDp, and POWER_ON on main; 6-gang: _myDp; dimmer: _myDpSwitch, _myDpSpeed,
\* and POWER_ON, BACKLIGHT on main)
MyDps(driver, subDeviceId) ==
  LET g == GangNumber(subDeviceId) IN
  CASE driver = "NovaDigitalSwitch4Gang" ->
         {g} \cup (IF subDeviceId = "" THEN {DP_POWER_ON_4GANG} ELSE {})
    [] driver = "ZemismartSwitch6Gang" -> {g}
    [] driver = "MoesDimmer3Gang" ->
         {g, g + 3} \cup (IF subDeviceId = "" THEN {DP_POWER_ON_DIMMER, DP_BACKLIGHT_DIMMER}
                                              ELSE {})

\* g._isMyDp(dp); before onNodeInit of g has run _isMain and _myDp are undefined, and
\* dp === this._myDp holds for a frame without dp only
IsMyDp(R, d, dp) ==
  IF d \in R.inited THEN dp # UndefinedDp /\ dp \in MyDps(R.driver, d[2])
                    ELSE dp = UndefinedDp

\* the dps whose handler sets a capability or a setting of the device
\* (switch (dp) in _processDatapoint; dp >= GANG1 && dp <= GANG6 in the 6-gang)
HandledDps(driver) ==
  CASE driver = "NovaDigitalSwitch4Gang" -> {1, 2, 3, 4, DP_POWER_ON_4GANG}
    [] driver = "ZemismartSwitch6Gang" -> {1, 2, 3, 4, 5, 6}
    [] driver = "MoesDimmer3Gang" -> {1, 2, 3, 4, 5, 6, DP_POWER_ON_DIMMER, DP_BACKLIGHT_DIMMER}

\* this._getNodeDevices() of device self: the devices with the same getData().ieeeAddress
GetNodeDevices(R, self) ==
  LET all == DriverGetDevices(R.driver, R.otherFirst) IN
  FilterSeq(all, {d \in SeqToSet(all) :
                    IeeeAddress(R.carried, d) = IeeeAddress(R.carried, self)})

RouteToAll(R, list, dp) == {d \in SeqToSet(list) : IsMyDp(R, d, dp)}

\* list.find(g => g._isMyDp(dp)): the first device of the list that owns dp, as a set
RouteTo(R, list, dp) ==
  LET hits == {k \in 1..Len(list) : IsMyDp(R, list[k], dp)} IN
  IF hits = {} THEN {}
  ELSE {list[CHOOSE k \in hits : \A j \in hits : k <= j]}

NoDpEvent == [event |-> "none", dp |-> UndefinedDp, owners |-> {}, receivers |-> {},
              changed |-> {}]

RouteIdleState ==
  [driver |-> "NovaDigitalSwitch4Gang", carried |-> "all", otherFirst |-> FALSE,
   inited |-> {}, listening |-> FALSE, last |-> NoDpEvent]

\* onNodeInit of device d: _myDp and _isMain are set; the main device attaches the
\* listeners when endpoint 1 carries the tuya cluster
TuyaOnNodeInit(n, subDeviceId, hasTuya) ==
  /\ <<n, subDeviceId>> \in SeqToSet(DriverGetDevices(route.driver, route.otherFirst))
  /\ <<n, subDeviceId>> \notin route.inited
  /\ <<n, subDeviceId>> = <<1, "">> \/ hasTuya
  /\ route' = [route EXCEPT !.inited = @ \cup {<<n, subDeviceId>>},
                            !.listening = @ \/ (<<n, subDeviceId>> = <<1, "">> /\ hasTuya)]
  /\ UNCHANGED <<sendVars, cmdVars, availVars, sibVars, nodeVars, bulkVars, protoVars>>

\* handleTuya(data) on the main device of node 1 for a 'reporting' or 'response' event,
\* and _processDatapoint(data) of the target: the target's capability (or setting) is
\* written when its handler runs and the value differs from the current one
HandleTuya(evt, dp, differs) ==
  /\ route.listening
  /\ LET list == GetNodeDevices(route, <<1, "">>)
         receivers == RouteTo(route, list, dp)
         changed == {d \in receivers :
                       /\ IsMyDp(route, d, dp)
                       /\ dp \in HandledDps(route.driver)
                       /\ differs}
     IN route' = [route EXCEPT !.last =
                    [event |-> evt, dp |-> dp,
                     owners |-> {d \in SeqToSet(DriverGetDevices(route.driver, route.otherFirst)) :
                                   IsMyDp(route, d, dp)},
                     receivers |-> receivers, changed |-> changed]]
  /\ UNCHANGED <<sendVars, cmdVars, availVars, sibVars, nodeVars, bulkVars, protoVars>>

RouteIdle == route = RouteIdleState

RouteInit ==
  \E driver \in TuyaDrivers, carried \in {"all", "main", "none"}, otherFirst \in BOOLEAN :
    route = [RouteIdleState EXCEPT !.driver = driver, !.carried = carried,
                                   !.otherFirst = otherFirst]

RouteNext ==
  \/ \E n \in {1, 2}, sub \in SeqToSet(SubDeviceIds(route.driver)), hasTuya \in BOOLEAN :
       TuyaOnNodeInit(n, sub, hasTuya)
  \/ \E evt \in {"reporting", "response"}, dp \in Datapoints, differs \in BOOLEAN :
       HandleTuya(evt, dp, differs)

\* ═════════════════════════════════════════════════════════════════════════
\*  TuyaSpecificClusterDevice.js : the transactionID getter, one instance of
\*  the class per virtual device of a node
\* ═════════════════════════════════════════════════════════════════════════

\* two virtual devices of one physical node; each is an instance of the class and
\* carries its own _transactionID field
TxDevices == {"main", "secondGang"}

\* get transactionID() { return this._transactionID++ % 256; }: the value returned
TransId(counter) == counter % 256

NoFrame == [transid |-> -1, by |-> "none"]

TxIdleState == [counter |-> [d \in TxDevices |-> 0], last |-> NoFrame, prev |-> NoFrame]

\* device d sends one datapoint frame (one attempt of _sendTuyaDatapoint):
\* transid: this.transactionID
TxSendFrame(d) ==
  /\ tx.counter[d] < MaxTransactions
  /\ tx' = [tx EXCEPT !.counter[d] = @ + 1,
                      !.last = [transid |-> TransId(tx.counter[d]), by |-> d],
                      !.prev = tx.last]
  /\ UNCHANGED <<sendVars, cmdVars, availVars, sibVars, nodeVars, bulkVars, routeVars, codecVars, clusterVars, timeVars, settingsVars, inboundVars, lateVars>>

\* resetTransactionId(): this._transactionID = 0
ResetTransactionId(d) ==
  /\ tx.counter[d] # 0
  /\ tx' = [tx EXCEPT !.counter[d] = 0]
  /\ UNCHANGED <<sendVars, cmdVars, availVars, sibVars, nodeVars, bulkVars, routeVars, codecVars, clusterVars, timeVars, settingsVars, inboundVars, lateVars>>

TxIdle == tx = TxIdleState

TxInit == tx = TxIdleState

TxNext ==
  \/ \E d \in TxDevices : TxSendFrame(d)
  \/ \E d \in TxDevices : ResetTransactionId(d)

\* ═════════════════════════════════════════════════════════════════════════
\*  Datapoint values: getDataValue / _parseDataValue / _bufToUint32 of the
\*  drivers, and the buffers the write methods of TuyaSpecificClusterDevice
\*  build
\* ═════════════════════════════════════════════════════════════════════════

\* TUYA_DATA_TYPES
DT_RAW == 0
DT_BOOL == 1
DT_VALUE == 2
DT_STRING == 3
DT_ENUM == 4
DT_BITMAP == 5

\* the datatypes a frame may carry: the six defined ones and two that are not
FrameDatatypes == {0, 1, 2, 3, 4, 5, 6, 255}

\* bytes of interest: 0x00, 0x01, 0x05, 0x2C, 0x7F, 0x80, 0xFF
FrameBytes == {0, 1, 5, 44, 127, 128, 255}

FrameData == UNION {[1..n -> FrameBytes] : n \in 0..MaxBytes}

\* (v << 8) of JavaScript: v is converted to a 32-bit integer, shifted, and the result
\* is read as a signed 32-bit integer
ShiftLeft8(v) ==
  LET low24 == v % 16777216 IN
  IF low24 >= 8388608 THEN (low24 - 16777216) * 256 ELSE low24 * 256

\* _bufToUint32(buf): value = (value << 8) + buf[i] for every byte; the same number as
\* chunks.reduce((acc, byte) => (acc << 8) | byte, 0), since the low byte of acc << 8 is 0
RECURSIVE BufToUint32(_)
BufToUint32(buf) ==
  IF buf = <<>> THEN 0
  ELSE ShiftLeft8(BufToUint32(SubSeq(buf, 1, Len(buf) - 1))) + buf[Len(buf)]

\* a | b of JavaScript for two non-negative numbers
RECURSIVE BitOr(_, _)
BitOr(a, b) ==
  IF a = 0 THEN b
  ELSE IF b = 0 THEN a
  ELSE 2 * BitOr(a \div 2, b \div 2) + (IF a % 2 = 1 \/ b % 2 = 1 THEN 1 ELSE 0)

\* convertMultiByteNumberPayloadToSingleDecimalNumber(chunks):
\* chunks.reduce((acc, byte) => (acc << 8) | byte, 0); the bits above the low byte of
\* acc << 8 stay, the low byte is or-ed with the new byte
RECURSIVE ConvertMultiByteNumber(_)
ConvertMultiByteNumber(chunks) ==
  IF chunks = <<>> THEN 0
  ELSE LET shifted == ShiftLeft8(ConvertMultiByteNumber(SubSeq(chunks, 1, Len(chunks) - 1)))
       IN (shifted - (shifted % 256)) + BitOr(shifted % 256, chunks[Len(chunks)])

\* the values a decode yields: a Buffer, a boolean (num 1 / 0), a number, a string (its
\* char codes), undefined, or a thrown Error
DecodedBytes(data) == [kind |-> "bytes", num |-> 0, bytes |-> data, error |-> ""]
DecodedBool(b) == [kind |-> "bool", num |-> IF b THEN 1 ELSE 0, bytes |-> <<>>, error |-> ""]
DecodedNumber(n) == [kind |-> "number", num |-> n, bytes |-> <<>>, error |-> ""]
DecodedString(codes) == [kind |-> "string", num |-> 0, bytes |-> codes, error |-> ""]
DecodedUndefined == [kind |-> "undefined", num |-> 0, bytes |-> <<>>, error |-> ""]
DecodeError(msg) == [kind |-> "error", num |-> 0, bytes |-> <<>>, error |-> msg]

\* getDataValue(dpValue) / _parseDataValue(dpValue): switch (dpValue.datatype)
GetDataValue(datatype, data) ==
  CASE datatype = DT_RAW -> DecodedBytes(data)
    [] datatype = DT_BOOL -> DecodedBool(Len(data) > 0 /\ data[1] = 1)
    [] datatype = DT_VALUE -> DecodedNumber(BufToUint32(data))
    [] datatype = DT_STRING -> DecodedString(data)
    [] datatype = DT_ENUM -> IF Len(data) > 0 THEN DecodedNumber(data[1]) ELSE DecodedUndefined
    [] datatype = DT_BITMAP -> DecodedNumber(BufToUint32(data))
    [] OTHER -> DecodeError("Unsupported datatype")

\* buf.writeUInt32BE(value, 0) on Buffer.alloc(4)
UInt32BE(n) == <<n \div 16777216, (n \div 65536) % 256, (n \div 256) % 256, n % 256>>

\* the 16-bit halves of the numbers handed to writeData32
Words == {0, 1, 300, 32767, 32768, 65535}

\* arguments of writeData32: an integer of 0..0xFFFFFFFF, given by its two halves, or a
\* value the method rejects (negative, not an integer, above 0xFFFFFFFF)
NoInput == [kind |-> "none", hi |-> 0, lo |-> 0]
Uint32Inputs ==
  {[kind |-> "uint32", hi |-> hi, lo |-> lo] : hi \in Words, lo \in Words}
    \cup {[kind |-> k, hi |-> 0, lo |-> 0] : k \in {"negative", "fraction", "above"}}

\* writeData32(dp, value): throws unless value is an integer in 0..0xFFFFFFFF, else
\* Buffer.alloc(4) and buf.writeUInt32BE(value, 0)
WriteData32(value) ==
  IF value.kind # "uint32" THEN DecodeError("writeData32: invalid uint32")
  ELSE DecodedBytes(<<value.hi \div 256, value.hi % 256, value.lo \div 256, value.lo % 256>>)

\* the buffer the write method of a datatype builds from a decoded value, or the error
\* it throws: writeRaw (Buffer.isBuffer), writeBool (typeof boolean), writeData32
\* (integer in 0..0xFFFFFFFF; also used for bitmaps), writeString (latin1), writeEnum
\* (integer in 0..255)
WriteBuffer(datatype, value) ==
  CASE datatype = DT_RAW ->
         IF value.kind = "bytes" THEN DecodedBytes(value.bytes)
         ELSE DecodeError("writeRaw: data must be a Buffer")
    [] datatype = DT_BOOL ->
         IF value.kind = "bool" THEN DecodedBytes(<<value.num>>)
         ELSE DecodeError("writeBool: expected boolean")
    [] datatype \in {DT_VALUE, DT_BITMAP} ->
         IF value.kind = "number" /\ value.num >= 0 THEN DecodedBytes(UInt32BE(value.num))
         ELSE DecodeError("writeData32: invalid uint32")
    [] datatype = DT_STRING ->
         IF value.kind = "string" THEN DecodedBytes([k \in 1..Len(value.bytes) |->
                                                       value.bytes[k] % 256])
         ELSE DecodeError("writeString")
    [] datatype = DT_ENUM ->
         IF value.kind = "number" /\ value.num \in 0..255 THEN DecodedBytes(<<value.num>>)
         ELSE DecodeError("writeEnum: invalid enum")
    [] OTHER -> DecodeError("unknown type")

CodecIdleState ==
  [pc |-> "idle", datatype |-> 0, data |-> <<>>, decoded |-> DecodedUndefined,
   encoded |-> DecodedUndefined, redecoded |-> DecodedUndefined,
   input |-> NoInput, reduced |-> DecodedUndefined]

\* writeData32 builds the buffer of a number, and the device reports it back
CodecWriteData32 ==
  /\ codec.pc = "value"
  /\ LET written == WriteData32(codec.input)
     IN codec' = IF written.kind = "error"
                 THEN [codec EXCEPT !.pc = "rejected", !.encoded = written]
                 ELSE [codec EXCEPT !.pc = "frame", !.datatype = DT_VALUE,
                                    !.data = written.bytes]
  /\ UNCHANGED <<sendVars, cmdVars, availVars, sibVars, nodeVars, bulkVars, routeVars, txVars, clusterVars, timeVars, settingsVars, inboundVars, lateVars>>

\* a frame's value is decoded
CodecDecode ==
  /\ codec.pc = "frame"
  /\ codec' = [codec EXCEPT !.pc = "decoded",
                            !.decoded = GetDataValue(codec.datatype, codec.data),
                            !.reduced =
                              IF codec.datatype \in {DT_VALUE, DT_BITMAP}
                              THEN DecodedNumber(ConvertMultiByteNumber(codec.data))
                              ELSE GetDataValue(codec.datatype, codec.data)]
  /\ UNCHANGED <<sendVars, cmdVars, availVars, sibVars, nodeVars, bulkVars, routeVars, txVars, clusterVars, timeVars, settingsVars, inboundVars, lateVars>>

\* the decoded value is written back with the write method of its datatype
CodecEncode ==
  /\ codec.pc = "decoded"
  /\ codec.decoded.kind # "error"
  /\ codec' = [codec EXCEPT !.pc = "encoded",
                            !.encoded = WriteBuffer(codec.datatype, codec.decoded)]
  /\ UNCHANGED <<sendVars, cmdVars, availVars, sibVars, nodeVars, bulkVars, routeVars, txVars, clusterVars, timeVars, settingsVars, inboundVars, lateVars>>

\* the buffer that was written is decoded again
CodecRedecode ==
  /\ codec.pc = "encoded"
  /\ codec.encoded.kind = "bytes"
  /\ codec' = [codec EXCEPT !.pc = "redecoded",
                            !.redecoded = GetDataValue(codec.datatype, codec.encoded.bytes)]
  /\ UNCHANGED <<sendVars, cmdVars, availVars, sibVars, nodeVars, bulkVars, routeVars, txVars, clusterVars, timeVars, settingsVars, inboundVars, lateVars>>

CodecIdle == codec = CodecIdleState

CodecInit ==
  \/ \E datatype \in FrameDatatypes, data \in FrameData :
       codec = [CodecIdleState EXCEPT !.pc = "frame", !.datatype = datatype, !.data = data]
  \/ \E value \in Uint32Inputs :
       codec = [CodecIdleState EXCEPT !.pc = "value", !.input = value]

CodecNext == CodecWriteData32 \/ CodecDecode \/ CodecEncode \/ CodecRedecode

\* ═════════════════════════════════════════════════════════════════════════
\*  TuyaSpecificCluster.js : bind(), the on... handlers, and the listeners the
\*  drivers attach to the events
\* ═════════════════════════════════════════════════════════════════════════

NoCommand == -3       \* the listener is called without a command object
UndefinedId == -2     \* command.id === undefined
NullId == -1          \* command.id === null

\* ids of inbound commands: the seven of commandHandlers, two unknown ones, and the
\* malformed ones
CommandIds == {0, 1, 2, 3, 6, 17, 36, 4, 255, NullId, UndefinedId, NoCommand}

EventNameShifted(id) ==
  CASE id = 0 -> "reporting"
    [] id = 1 -> "response"
    [] id = 2 -> "datapoint"
    [] OTHER -> ""

\* commandHandlers[command.id] and the event its handler emits, "" when there is none
EventName(id) ==
  CASE id = 0 -> "datapoint"
    [] id = 1 -> "reporting"
    [] id = 2 -> "response"
    [] id = 3 -> "dataQuery"
    [] id = 6 -> "reportingConfiguration"
    [] id = 17 -> "heartbeat"
    [] id = 36 -> "timeRequest"
    [] OTHER -> ""

\* the listeners of one device on the cluster: the multi-gang switches (async handleTuya,
\* _processDatapoint(...).catch), the siren (_processDatapoint without try), the clock
\* sensor (_processDatapoint with try / catch), and a listener that throws on every event
ListenerKinds == {"gang", "siren", "sensor", "throwing"}

\* tuya.on(event, ...) of the drivers
Listens(kind, evt) ==
  CASE kind = "gang" -> evt \in {"reporting", "response"}
    [] kind = "siren" -> evt \in {"response", "reporting", "datapoint"}
    [] kind = "sensor" -> evt \in {"reporting", "response", "heartbeat", "timeRequest"}
    [] kind = "throwing" -> evt # ""

\* what running the listener of a datapoint event does: the value it decoded, whether a
\* capability or setting was written, and whether the listener threw into emit()
ListenerRun(kind, evt, datatype, data, differs) ==
  LET value == GetDataValue(datatype, data)
      isDp == evt \in {"reporting", "response", "datapoint"} IN
  CASE kind = "throwing" ->
         [decoded |-> DecodedUndefined, changed |-> FALSE, threw |-> TRUE]
    [] kind = "gang" ->
         \* the throw of _parseDataValue rejects the promise of _processDatapoint,
         \* which .catch(e => this.error(...)) takes
         [decoded |-> value, changed |-> (value.kind # "error" /\ differs), threw |-> FALSE]
    [] kind = "siren" ->
         [decoded |-> value, changed |-> (value.kind # "error" /\ differs),
          threw |-> value.kind = "error"]
    [] kind = "sensor" ->
         IF isDp
           THEN [decoded |-> value, changed |-> (value.kind # "error"), threw |-> FALSE]
           ELSE [decoded |-> DecodedUndefined, changed |-> FALSE, threw |-> FALSE]

HandlerCatchesNothing(threw) == FALSE

\* try { this.emit(name, payload) } catch (error) { this.error(...) } of every on...
\* handler: what a listener threw ends here
HandlerCatches(threw) == threw

NoClusterCommand ==
  [id |-> NoCommand, datatype |-> 0, ran |-> FALSE, events |-> <<>>,
   decoded |-> DecodedUndefined, changed |-> FALSE, threw |-> FALSE, escaped |-> FALSE]

ClusterIdleState == [listener |-> "gang", commands |-> 0, last |-> NoClusterCommand]

\* this.on('command', (command) => { ... }) of bind() runs for one inbound command whose
\* payload has the given datatype
OnCommand(id, datatype, differs) ==
  /\ cluster.commands < MaxCommands
  /\ LET name == IF id \in {NoCommand, UndefinedId} THEN "" ELSE EventName(id)
         runs == name # "" /\ Listens(cluster.listener, name)
         out == IF runs THEN ListenerRun(cluster.listener, name, datatype, <<1>>, differs)
                        ELSE [decoded |-> DecodedUndefined, changed |-> FALSE, threw |-> FALSE]
     IN cluster' = [cluster EXCEPT
          !.commands = @ + 1,
          !.last = [id |-> id, datatype |-> datatype, ran |-> runs,
                    events |-> IF name = "" THEN <<>> ELSE <<name>>,
                    decoded |-> out.decoded, changed |-> out.changed, threw |-> out.threw,
                    escaped |-> (out.threw /\ ~HandlerCatches(out.threw))]]
  /\ UNCHANGED <<sendVars, cmdVars, availVars, sibVars, nodeVars, bulkVars, routeVars, txVars, codecVars, timeVars, settingsVars, inboundVars, lateVars>>

ClusterIdle == cluster = ClusterIdleState

ClusterInit ==
  \E kind \in ListenerKinds : cluster = [ClusterIdleState EXCEPT !.listener = kind]

ClusterNext ==
  \E id \in CommandIds, datatype \in FrameDatatypes, differs \in BOOLEAN :
    OnCommand(id, datatype, differs)

\* ═════════════════════════════════════════════════════════════════════════
\*  TuyaSpecificClusterDevice.js : sendTimeResponse
\* ═════════════════════════════════════════════════════════════════════════

\* request?.payload || request?.data of the caller: none (proactive sync, "absent"), or a
\* Buffer with these bytes
TimeRequests ==
  { [present |-> FALSE, data |-> <<>>],
    [present |-> TRUE, data |-> <<>>],
    [present |-> TRUE, data |-> <<0>>],
    [present |-> TRUE, data |-> <<0, 8>>],
    [present |-> TRUE, data |-> <<0, 6>>],
    [present |-> TRUE, data |-> <<0, 0>>],
    [present |-> TRUE, data |-> <<1, 6>>],
    [present |-> TRUE, data |-> <<0, 8, 1, 2>>],
    [present |-> TRUE, data |-> <<0, 6, 1, 2>>] }

\* Math.floor(Date.now() / 1000) and the offset of the time zone, in seconds
UtcSeconds == {1700000000, 1793000000, 2147400000}
OffsetSeconds == {-10800, 0, 3600}

Use10BytesAlways(request) == TRUE

\* let use10Bytes = true; it becomes false for a request of two or more bytes that
\* starts with 0x00,0x06 or 0x00,0x00
Use10Bytes(request) ==
  ~ ( /\ request.present
      /\ Len(request.data) >= 2
      /\ request.data[1] = 0
      /\ request.data[2] \in {6, 0} )

\* the payload: Buffer.alloc(10) with 0x00, 0x08 and the two UInt32BE, or Buffer.alloc(8)
\* with the two UInt32BE
TimePayload(request, utcSeconds, offsetSeconds) ==
  LET localSeconds == utcSeconds + offsetSeconds IN
  IF Use10Bytes(request)
    THEN <<0, 8>> \o UInt32BE(utcSeconds) \o UInt32BE(localSeconds)
    ELSE UInt32BE(utcSeconds) \o UInt32BE(localSeconds)

TimeIdleState ==
  [calls |-> 0, request |-> [present |-> FALSE, data |-> <<>>], utcSeconds |-> 0,
   offsetSeconds |-> 0, payload |-> <<>>, sent |-> FALSE, thrown |-> FALSE]

\* sendTimeResponse(request): the payload is built, then sent with cluster.setTime when
\* the endpoint and the tuya cluster exist
SendTimeResponse(request, utcSeconds, offsetSeconds, hasCluster) ==
  /\ timeSync.calls < MaxTimeCalls
  /\ timeSync' = [calls |-> timeSync.calls + 1, request |-> request,
                  utcSeconds |-> utcSeconds, offsetSeconds |-> offsetSeconds,
                  payload |-> TimePayload(request, utcSeconds, offsetSeconds),
                  sent |-> hasCluster, thrown |-> ~hasCluster]
  /\ UNCHANGED <<sendVars, cmdVars, availVars, sibVars, nodeVars, bulkVars, routeVars, txVars, codecVars, clusterVars, settingsVars, inboundVars, lateVars>>

TimeIdle == timeSync = TimeIdleState

TimeInit == timeSync = TimeIdleState

TimeNext ==
  \E request \in TimeRequests, utcSeconds \in UtcSeconds, offsetSeconds \in OffsetSeconds,
     hasCluster \in BOOLEAN :
    SendTimeResponse(request, utcSeconds, offsetSeconds, hasCluster)

\* ═════════════════════════════════════════════════════════════════════════
\*  onSettings of the siren and of the 4-gang switch
\* ═════════════════════════════════════════════════════════════════════════

SIREN_DP_VOLUME == 5
SIREN_DP_DURATION == 7
SIREN_DP_MELODY == 21

\* Number(x) of a setting that is not numeric
NotANumber == [kind |-> "nan", num |-> 0, bytes |-> <<>>, error |-> ""]

\* the values a numeric setting arrives with, as Number(newSettings[key]) reads them
VolumeSettings == {DecodedNumber(n) : n \in {-1, 0, 2, 3}} \cup {NotANumber}
DurationSettings == {DecodedNumber(n) : n \in {0, 1, 1800, 1801}}
MelodySettings == {DecodedNumber(n) : n \in {-1, 17, 18}}
PowerOnSettings == {"off", "on", "memory", "toggle"}

SirenKeys == {"alarmvolume", "alarmsoundtime", "alarmtune", "health_monitoring_enabled"}
GangKeys == {"power_on_behavior", "health_monitoring_enabled", "power_on_current"}

\* changedKeys: the keys of one settings change, each once, in the order Homey lists them
ChangedKeys(keys) ==
  { ks \in UNION { [1..n -> keys] : n \in 1..MaxChangedKeys } :
      \A i, j \in 1..Len(ks) : i # j => ks[i] # ks[j] }

SirenNewSettings ==
  [alarmvolume : VolumeSettings, alarmsoundtime : DurationSettings,
   alarmtune : MelodySettings, health_monitoring_enabled : BOOLEAN,
   power_on_behavior : {"memory"}]

GangNewSettings ==
  [alarmvolume : {DecodedNumber(0)}, alarmsoundtime : {DecodedNumber(1)},
   alarmtune : {DecodedNumber(0)}, health_monitoring_enabled : BOOLEAN,
   power_on_behavior : PowerOnSettings]

\* value < lo || value > hi, which is false for NaN
OutsideRange(value, lo, hi) == value.kind = "number" /\ (value.num < lo \/ value.num > hi)

NoWrites == [writes |-> <<>>, thrown |-> FALSE]
Throws == [writes |-> <<>>, thrown |-> TRUE]

\* writeEnum / writeData32 called from onSettings: an invalid value throws before
\* anything is sent; otherwise the frame goes out, and the call throws when the send
\* is not acknowledged after its retries
SettingsWrite(dp, datatype, value, linkUp) ==
  IF WriteBuffer(datatype, value).kind = "error" THEN Throws
  ELSE [writes |-> <<[dp |-> dp, datatype |-> datatype, value |-> value.num]>>,
        thrown |-> ~linkUp]

\* one case of the switch in the siren's onSettings
SirenKeyStep(key, newSettings, linkUp) ==
  CASE key = "alarmvolume" ->
         IF OutsideRange(newSettings.alarmvolume, 0, 2) THEN Throws
         ELSE SettingsWrite(SIREN_DP_VOLUME, DT_ENUM, newSettings.alarmvolume, linkUp)
    [] key = "alarmsoundtime" ->
         IF OutsideRange(newSettings.alarmsoundtime, 1, 1800) THEN Throws
         ELSE SettingsWrite(SIREN_DP_DURATION, DT_VALUE, newSettings.alarmsoundtime, linkUp)
    [] key = "alarmtune" ->
         IF OutsideRange(newSettings.alarmtune, 0, 17) THEN Throws
         ELSE SettingsWrite(SIREN_DP_MELODY, DT_ENUM, newSettings.alarmtune, linkUp)
    [] OTHER -> NoWrites

\* POWER_ON_MODE and Object.entries(POWER_ON_MODE).find(([, v]) => v === newMode)?.[0]
PowerOnEnum(newMode) ==
  CASE newMode = "off" -> DecodedNumber(0)
    [] newMode = "on" -> DecodedNumber(1)
    [] newMode = "memory" -> DecodedNumber(2)
    [] OTHER -> DecodedUndefined

\* _handlePowerOnBehaviorSetting(newMode)
HandlePowerOnBehaviorSetting(newMode, linkUp) ==
  IF PowerOnEnum(newMode) = DecodedUndefined THEN Throws
  ELSE SettingsWrite(DP_POWER_ON_4GANG, DT_ENUM, PowerOnEnum(newMode), linkUp)

\* one case of the switch in the 4-gang switch's onSettings
GangKeyStep(key, newSettings, linkUp) ==
  CASE key = "power_on_behavior" ->
         HandlePowerOnBehaviorSetting(newSettings.power_on_behavior, linkUp)
    [] OTHER -> NoWrites

\* for (const key of changedKeys) { switch (key) ... }: the keys in their order, up to
\* the first one that throws
RECURSIVE RunChangedKeys(_, _, _, _, _, _)
RunChangedKeys(device, changedKeys, i, newSettings, linkUp, writes) ==
  IF i > Len(changedKeys) THEN [writes |-> writes, thrown |-> FALSE]
  ELSE LET r == IF device = "siren" THEN SirenKeyStep(changedKeys[i], newSettings, linkUp)
                ELSE GangKeyStep(changedKeys[i], newSettings, linkUp) IN
       IF r.thrown THEN [writes |-> writes \o r.writes, thrown |-> TRUE]
       ELSE RunChangedKeys(device, changedKeys, i + 1, newSettings, linkUp,
                           writes \o r.writes)

SettingsIdleState ==
  [calls |-> 0, device |-> "siren", isMain |-> TRUE, changedKeys |-> <<>>,
   newSettings |-> [alarmvolume |-> DecodedNumber(0), alarmsoundtime |-> DecodedNumber(1),
                    alarmtune |-> DecodedNumber(0), health_monitoring_enabled |-> FALSE,
                    power_on_behavior |-> "memory"],
   writes |-> <<>>, thrown |-> FALSE]

SettingsDone(device, isMain, changedKeys, newSettings, r) ==
  settingsCall' = [calls |-> settingsCall.calls + 1, device |-> device, isMain |-> isMain,
                   changedKeys |-> changedKeys, newSettings |-> newSettings,
                   writes |-> r.writes, thrown |-> r.thrown]

\* tuya_siren: onSettings({ newSettings, changedKeys })
SirenOnSettings(changedKeys, newSettings, linkUp) ==
  /\ settingsCall.calls < MaxSettingsCalls
  /\ SettingsDone("siren", TRUE, changedKeys, newSettings,
                  RunChangedKeys("siren", changedKeys, 1, newSettings, linkUp, <<>>))
  /\ UNCHANGED <<sendVars, cmdVars, availVars, sibVars, nodeVars, bulkVars, routeVars, txVars, codecVars, clusterVars, timeVars, inboundVars, lateVars>>

\* novadigital_switch_4_gang: onSettings({ oldSettings, newSettings, changedKeys })
GangOnSettings(isMain, changedKeys, newSettings, linkUp) ==
  /\ settingsCall.calls < MaxSettingsCalls
  /\ SettingsDone("gang", isMain, changedKeys, newSettings,
                  IF ~isMain THEN NoWrites
                  ELSE RunChangedKeys("gang", changedKeys, 1, newSettings, linkUp, <<>>))
  /\ UNCHANGED <<sendVars, cmdVars, availVars, sibVars, nodeVars, bulkVars, routeVars, txVars, codecVars, clusterVars, timeVars, inboundVars, lateVars>>

SettingsIdle == settingsCall = SettingsIdleState

SettingsInit == settingsCall = SettingsIdleState

SettingsNext ==
  \/ \E changedKeys \in ChangedKeys(SirenKeys), newSettings \in SirenNewSettings,
        linkUp \in BOOLEAN :
       SirenOnSettings(changedKeys, newSettings, linkUp)
  \/ \E isMain \in BOOLEAN, changedKeys \in ChangedKeys(GangKeys),
        newSettings \in GangNewSettings, linkUp \in BOOLEAN :
       GangOnSettings(isMain, changedKeys, newSettings, linkUp)

\* ═════════════════════════════════════════════════════════════════════════
\*  Inbound on/off reports and the outbound on/off command of one device:
\*  _handleOnOff / _onCapabilityOnOff of the 4-gang switch, _handleAlarmState /
\*  _onCapabilityOnOff of the siren.  The same device is run twice side by side
\*  with the same commands: in run "once" a report is delivered one time, in
\*  run "twice" it is delivered a second time later on.
\* ═════════════════════════════════════════════════════════════════════════

InboundDevices == {"gang", "siren"}

\* getCapabilityValue('onoff'): null before the first value
OnOffValues == {"null", "true", "false"}

\* the value of a bool datapoint as the capability stores it
OnOffOf(data) == IF GetDataValue(DT_BOOL, data).num = 1 THEN "true" ELSE "false"

AntiFlickerNever(currentValue, value) == FALSE

\* if (currentValue === value) return;
AntiFlicker(currentValue, value) == currentValue = value

\* _handleOnOff(dp, value) of the 4-gang switch and _handleAlarmState(value) of the siren,
\* which also triggers siren_activated / siren_deactivated
HandleOnOffReport(device, D, value) ==
  IF AntiFlicker(D.onoff, value) THEN D
  ELSE [D EXCEPT !.onoff = value, !.updates = @ + 1,
                 !.flows = IF device = "siren" THEN @ + 1 ELSE @]

CommandPendingNever(D) == FALSE

\* if (this._commandPending) { log 'command already pending, skipping'; return; }
CommandPending(D) == D._commandPending

\* _onCapabilityOnOff(value) up to its await.  4-gang: anti-flicker and debounce return
\* at once, otherwise _commandPending is set and writeBool starts.  Siren: the write
\* starts.  A listener that returns lets Homey store the value.
CapabilityOnOffStart(device, D, value) ==
  LET C == [D EXCEPT !.pendingBefore = D._commandPending, !.started = FALSE] IN
  IF device = "gang" /\ AntiFlicker(D.onoff, value) THEN C
  ELSE IF device = "gang" /\ CommandPending(D) THEN [C EXCEPT !.onoff = value]
  ELSE [C EXCEPT !._commandPending = (device = "gang"), !.pc = "writing",
                 !.cmdValue = value, !.inflight = @ + 1, !.started = TRUE]

\* _onCapabilityOnOff(value) after its await: finally clears _commandPending; when the
\* write succeeded the listener returns and Homey stores the value (_stopSiren triggers
\* siren_deactivated first), when it failed the listener throws and the value stays
CapabilityOnOffDone(device, D, ok) ==
  IF D.pc # "writing" THEN D
  ELSE [D EXCEPT !._commandPending = FALSE,
                 !.pc = IF D.inflight > 1 THEN "writing" ELSE "idle",
                 !.inflight = @ - 1,
                 !.failed = @ \/ ~ok,
                 !.onoff = IF ok THEN D.cmdValue ELSE @,
                 !.flows = IF ok /\ device = "siren" /\ D.cmdValue = "false"
                             THEN @ + 1 ELSE @]

InboundDeviceState(onoff) ==
  [onoff |-> onoff, updates |-> 0, flows |-> 0, _commandPending |-> FALSE,
   pc |-> "idle", cmdValue |-> "null", inflight |-> 0, pendingBefore |-> FALSE,
   started |-> FALSE, failed |-> FALSE]

InboundIdleState ==
  [device |-> "gang", once |-> InboundDeviceState("null"),
   twice |-> InboundDeviceState("null"), frame |-> "null", dup |-> "none",
   equalAtReport |-> FALSE, updatedByReport |-> FALSE, setBetween |-> FALSE, cmds |-> 0]

\* an outbound command has changed the capability after the report and before its
\* second delivery
SetBetween(after) ==
  inbound.setBetween \/ (inbound.dup = "pending" /\ after.onoff # inbound.twice.onoff)

\* tuya.on('reporting' / 'response', handleTuya): the report reaches the device
InboundReport(data) ==
  /\ inbound.dup = "none"
  /\ LET value == OnOffOf(data) IN
     inbound' = [inbound EXCEPT
                   !.once = HandleOnOffReport(inbound.device, inbound.once, value),
                   !.twice = HandleOnOffReport(inbound.device, inbound.twice, value),
                   !.frame = value, !.dup = "pending",
                   !.equalAtReport = (inbound.twice.onoff = value),
                   !.updatedByReport =
                      (HandleOnOffReport(inbound.device, inbound.twice, value)
                         # inbound.twice)]
  /\ UNCHANGED <<sendVars, cmdVars, availVars, sibVars, nodeVars, bulkVars, routeVars, txVars, codecVars, clusterVars, timeVars, settingsVars, lateVars>>

\* the same report reaches the device a second time (the 'response' echo and the
\* 'reporting' of one state)
InboundReportAgain ==
  /\ inbound.dup = "pending"
  /\ inbound' = [inbound EXCEPT
                   !.twice = HandleOnOffReport(inbound.device, inbound.twice,
                                               inbound.frame),
                   !.dup = "delivered",
                   !.equalAtReport = (inbound.twice.onoff = inbound.frame),
                   !.updatedByReport =
                      (HandleOnOffReport(inbound.device, inbound.twice, inbound.frame)
                         # inbound.twice)]
  /\ UNCHANGED <<sendVars, cmdVars, availVars, sibVars, nodeVars, bulkVars, routeVars, txVars, codecVars, clusterVars, timeVars, settingsVars, lateVars>>

\* the user switches the capability: registerCapabilityListener('onoff', ...)
OnCapabilityOnOff(value) ==
  /\ inbound.cmds < MaxOutbound
  /\ inbound.device = "siren" => (inbound.once.pc = "idle" /\ inbound.twice.pc = "idle")
  /\ LET after == CapabilityOnOffStart(inbound.device, inbound.twice, value) IN
     inbound' = [inbound EXCEPT
                   !.once = CapabilityOnOffStart(inbound.device, inbound.once, value),
                   !.twice = after,
                   !.setBetween = SetBetween(after),
                   !.cmds = @ + 1]
  /\ UNCHANGED <<sendVars, cmdVars, availVars, sibVars, nodeVars, bulkVars, routeVars, txVars, codecVars, clusterVars, timeVars, settingsVars, lateVars>>

\* the write of the pending command ends
OnCapabilityOnOffDone(ok) ==
  /\ inbound.once.pc = "writing" \/ inbound.twice.pc = "writing"
  /\ LET after == CapabilityOnOffDone(inbound.device, inbound.twice, ok) IN
     inbound' = [inbound EXCEPT
                   !.once = CapabilityOnOffDone(inbound.device, inbound.once, ok),
                   !.twice = after,
                   !.setBetween = SetBetween(after)]
  /\ UNCHANGED <<sendVars, cmdVars, availVars, sibVars, nodeVars, bulkVars, routeVars, txVars, codecVars, clusterVars, timeVars, settingsVars, lateVars>>

InboundIdle == inbound = InboundIdleState

InboundInit ==
  \E device \in InboundDevices, onoff \in OnOffValues :
    inbound = [InboundIdleState EXCEPT !.device = device,
                                       !.once = InboundDeviceState(onoff),
                                       !.twice = InboundDeviceState(onoff)]

InboundNext ==
  \/ \E b \in {0, 1} : InboundReport(<<b>>)
  \/ InboundReportAgain
  \/ \E value \in {"true", "false"} : OnCapabilityOnOff(value)
  \/ \E ok \in BOOLEAN : OnCapabilityOnOffDone(ok)

\* ═════════════════════════════════════════════════════════════════════════
\*  AvailabilityManager.js : install, uninstall, _startWatchdog, _stopWatchdog,
\*  _installHandleFrameHook, _cleanup, with calls that overlap at their awaits
\* ═════════════════════════════════════════════════════════════════════════

LifeCalls == 1..MaxLifeCalls

NoLifeCall == [kind |-> "none", pc |-> "none", result |-> "none", afterUninstall |-> FALSE]

NoLifeFrame == [n |-> 0, markAlive |-> 0, original |-> 0, installed |-> FALSE,
                quiet |-> FALSE]

\* _startWatchdog(): refuses when _watchdogInterval is set, else setInterval
StartWatchdog(L) ==
  IF L.watchdogInterval THEN L
  ELSE [L EXCEPT !.watchdogInterval = TRUE, !.intervals = @ + 1]

\* _stopWatchdog(): clearInterval and _watchdogInterval = null
StopWatchdog(L) ==
  IF L.watchdogInterval THEN [L EXCEPT !.watchdogInterval = FALSE, !.intervals = @ - 1]
  ELSE L

\* _cleanup(): Cluster6 deletes the injected callback; the base class, which Cluster0
\* keeps, does nothing, so the wrappers on node.handleFrame stay
Cleanup(L) ==
  IF L.strategy = "Cluster6" THEN [L EXCEPT !.injected = FALSE] ELSE L

\* a call has returned
LifeDone(L, c, result) == [L EXCEPT !.calls[c].pc = "done", !.calls[c].result = result]

\* the first call slot not yet used
FreeLifeCall ==
  {c \in LifeCalls : life.calls[c].pc = "none"
                       /\ \A b \in LifeCalls : b < c => life.calls[b].pc # "none"}

\* an uninstall() has been issued before
UninstallIssued == \E b \in LifeCalls : life.calls[b].kind = "uninstall"

\* install() up to its first await: Cluster0 awaits _installHandleFrameHook, Cluster6
\* injects the callback, starts the watchdog and sets _installed without an await
InstallCall(c) ==
  /\ c \in FreeLifeCall
  /\ LET L == [life EXCEPT !.calls[c] = [NoLifeCall EXCEPT !.kind = "install",
                                                         !.afterUninstall = UninstallIssued]]
     IN life' =
          IF L.installed THEN LifeDone(L, c, "already installed")
          ELSE IF ~L.enabled THEN LifeDone(L, c, "disabled")
          ELSE IF L.strategy = "Cluster0" THEN [L EXCEPT !.calls[c].pc = "hooking"]
          ELSE LifeDone([StartWatchdog([L EXCEPT !.injected = TRUE])
                           EXCEPT !.installed = TRUE], c, "installed")
  /\ UNCHANGED <<earlyVars, dimVars, readyVars>>

\* Cluster0 install() after await getNode(): without a node it throws; else it wraps
\* node.handleFrame, starts the watchdog and sets _installed
InstallResume(c, hasNode) ==
  /\ life.calls[c].kind = "install" /\ life.calls[c].pc = "hooking"
  /\ life' =
       IF ~hasNode THEN LifeDone(life, c, "failed")
       ELSE LifeDone([StartWatchdog([life EXCEPT !.hooks = @ + 1])
                        EXCEPT !.installed = TRUE], c, "installed")
  /\ UNCHANGED <<earlyVars, dimVars, readyVars>>

\* uninstall() up to its await: returns when not installed, else _stopWatchdog() and the
\* body of _cleanup(), whose promise it awaits
UninstallCall(c) ==
  /\ c \in FreeLifeCall
  /\ LET L == [life EXCEPT !.calls[c] = [NoLifeCall EXCEPT !.kind = "uninstall"]]
     IN life' =
          IF ~L.installed THEN LifeDone(L, c, "not installed")
          ELSE [Cleanup(StopWatchdog(L)) EXCEPT !.calls[c].pc = "cleanup"]
  /\ UNCHANGED <<earlyVars, dimVars, readyVars>>

\* uninstall() after await this._cleanup(): _installed = false
UninstallResume(c) ==
  /\ life.calls[c].kind = "uninstall" /\ life.calls[c].pc = "cleanup"
  /\ life' = LifeDone([life EXCEPT !.installed = FALSE], c, "uninstalled")
  /\ UNCHANGED <<earlyVars, dimVars, readyVars>>

\* a frame arrives at the node.  Cluster0: node.handleFrame is the outermost wrapper; every
\* wrapper calls _markAlive and then the handler it wrapped, down to the original one.
\* Cluster6: the device's own handler runs and calls _markAliveFromAvailability?.()
LifeHandleFrame ==
  /\ life.frame.n < MaxFrames
  /\ life' = [life EXCEPT !.frame =
                [n |-> life.frame.n + 1,
                 markAlive |-> IF life.strategy = "Cluster0" THEN life.hooks
                               ELSE IF life.injected THEN 1 ELSE 0,
                 original |-> 1,
                 installed |-> life.installed,
                 quiet |-> \A c \in LifeCalls : life.calls[c].pc \in {"none", "done"}]]
  /\ UNCHANGED <<earlyVars, dimVars, readyVars>>

LifeIdleState ==
  [strategy |-> "Cluster0", enabled |-> TRUE, installed |-> FALSE,
   watchdogInterval |-> FALSE, intervals |-> 0, hooks |-> 0, injected |-> FALSE,
   calls |-> [c \in LifeCalls |-> NoLifeCall], frame |-> NoLifeFrame]

LifeIdle == life = LifeIdleState

\* a manager that has just been constructed
LifeInit ==
  \E kind \in {"Cluster0", "Cluster6"}, enabled \in BOOLEAN :
    life = [LifeIdleState EXCEPT !.strategy = kind, !.enabled = enabled]

LifeNext ==
  \/ \E c \in LifeCalls : InstallCall(c)
  \/ \E c \in LifeCalls, hasNode \in BOOLEAN : InstallResume(c, hasNode)
  \/ \E c \in LifeCalls : UninstallCall(c)
  \/ \E c \in LifeCalls : UninstallResume(c)
  \/ LifeHandleFrame

\* ═════════════════════════════════════════════════════════════════════════
\*  moes_dimmer_3gang/device.js : _onCapabilityDim, the debounce timer and
\*  _applyDimValue
\* ═════════════════════════════════════════════════════════════════════════

DimTick == 400                   \* milliseconds per step of the clock
DefaultDebounceDelay == 800      \* getSetting('debounceDelay') || 800
DefaultMinimumBrightness == 10   \* getSetting('minimumBrightness') || 10
DefaultMaximumBrightness == 100  \* getSetting('maximumBrightness') || 100

\* a setting that is not set (or is 0) reads as 0 here
DebounceDelaySettings == {0, 400, 800}
MinimumBrightnessSettings == {0, 20}
MaximumBrightnessSettings == {0, 80}

\* Math.round(value * 100) of the dim values sent
DimPercents == {0, 50, 100}

\* a || b on numbers
OrDefault(a, b) == IF a = 0 THEN b ELSE a

DebounceDelay == OrDefault(dim.debounceDelay, DefaultDebounceDelay)

Max2(a, b) == IF a >= b THEN a ELSE b
Min2(a, b) == IF a <= b THEN a ELSE b

\* Math.max(minSpeed, Math.min(maxSpeed, speedPercent))
ClampSpeed(minimumBrightness, maximumBrightness, percent) ==
  Max2(OrDefault(minimumBrightness, DefaultMinimumBrightness),
       Min2(OrDefault(maximumBrightness, DefaultMaximumBrightness), percent))

\* a timer of the host is due
DimTimerDue == \E t \in dim.timers : t.due <= dim.now

\* writeValue(this._myDpSpeed, speedPercent) is called: the write is recorded together
\* with whether it comes debounceDelay after the last command and carries its value
SpeedWrite(D, value) ==
  [D EXCEPT !.writes = @ + 1, !.burstWrites = @ + 1,
            !.lastWrite = [at |-> D.now, value |-> value],
            !.writesRight = @ /\ D.now = D.lastCmdAt + DebounceDelay
                              /\ value = D.lastSpeed]

\* _onCapabilityDim(value): clamp, remember the value, then either restart the
\* debounce timer or write at once
OnCapabilityDim(percent) ==
  /\ dim.cmds < MaxDimCmds
  /\ ~DimTimerDue
  /\ LET speedPercent == ClampSpeed(dim.minimumBrightness, dim.maximumBrightness, percent)
         newBurst == dim.lastCmdAt < 0 \/ dim.now - dim.lastCmdAt >= DebounceDelay
         D == [dim EXCEPT !._pendingDimValue = speedPercent,
                          !.cmds = @ + 1,
                          !.lastSpeed = speedPercent,
                          !.burstWrites = IF newBurst THEN 0 ELSE @,
                          !.overlapped = @ \/ dim.inflight > 0]
     IN dim' =
          IF dim.enableDebouncing
          THEN [D EXCEPT !.lastCmdAt = dim.now,
                         !.timers = {t \in @ : t.id # dim._dimDebounceTimer}
                                      \cup {[id |-> dim.nextId,
                                             due |-> dim.now + DebounceDelay]},
                         !._dimDebounceTimer = dim.nextId,
                         !.nextId = @ + 1]
          ELSE [SpeedWrite(D, speedPercent) EXCEPT !.lastCmdAt = dim.now]
  /\ UNCHANGED <<earlyVars, lifeVars, readyVars>>

\* the debounce timer fires: await this._applyDimValue(this._pendingDimValue)
DimTimerFires ==
  \E t \in dim.timers :
    /\ t.due <= dim.now
    /\ dim' = [SpeedWrite(dim, dim._pendingDimValue)
                 EXCEPT !.timers = @ \ {t}, !.inflight = @ + 1]
    /\ UNCHANGED <<earlyVars, lifeVars, readyVars>>

\* the write of a timer callback ends: after a success this._dimDebounceTimer = null;
\* after a throw the callback rejects and the handle stays
DimWriteDone(ok) ==
  /\ dim.inflight > 0
  /\ dim' = [dim EXCEPT !.inflight = @ - 1,
                        !._dimDebounceTimer = IF ok THEN 0 ELSE @]
  /\ UNCHANGED <<earlyVars, lifeVars, readyVars>>

\* time passes; a timer that is due fires before the clock moves on
DimAdvanceTime ==
  /\ dim.now + DimTick <= MaxDimTime
  /\ ~DimTimerDue
  /\ dim' = [dim EXCEPT !.now = @ + DimTick]
  /\ UNCHANGED <<earlyVars, lifeVars, readyVars>>

DimIdleState ==
  [now |-> 0, enableDebouncing |-> TRUE, debounceDelay |-> 0, minimumBrightness |-> 0,
   maximumBrightness |-> 0, _dimDebounceTimer |-> 0, _pendingDimValue |-> -1,
   timers |-> {}, nextId |-> 1, inflight |-> 0, cmds |-> 0, lastCmdAt |-> -1,
   lastSpeed |-> -1, writes |-> 0, burstWrites |-> 0,
   lastWrite |-> [at |-> -1, value |-> -1], writesRight |-> TRUE, overlapped |-> FALSE]

DimIdle == dim = DimIdleState

DimInit ==
  \E enableDebouncing \in BOOLEAN, debounceDelay \in DebounceDelaySettings,
     minimumBrightness \in MinimumBrightnessSettings,
     maximumBrightness \in MaximumBrightnessSettings :
    dim = [DimIdleState EXCEPT !.enableDebouncing = enableDebouncing,
                               !.debounceDelay = debounceDelay,
                               !.minimumBrightness = minimumBrightness,
                               !.maximumBrightness = maximumBrightness]

DimNext ==
  \/ \E percent \in DimPercents : OnCapabilityDim(percent)
  \/ DimTimerFires
  \/ \E ok \in BOOLEAN : DimWriteDone(ok)
  \/ DimAdvanceTime

\* ═════════════════════════════════════════════════════════════════════════
\*  TuyaSpecificClusterDevice.js : isDeviceReady, waitForDeviceReady and the
\*  onNodeInit that calls it
\* ═════════════════════════════════════════════════════════════════════════

DefaultMaxMs == 10000     \* waitForDeviceReady(maxMs = 10000)
FirstDelayMs == 250       \* let delayMs = 250
DelayCapMs == 1000        \* Math.min(delayMs * 2, 1000)

\* the maxMs of direct calls
MaxMsValues == {0, 600, 3000}

\* milliseconds a timer of the host fires after it is due
TimerLateness == {0, LateMs}

NextDelayUncapped(delayMs) == delayMs * 2

\* delayMs = Math.min(delayMs * 2, 1000)
NextDelay(delayMs) == Min2(delayMs * 2, DelayCapMs)

\* onNodeInit(props) after await super.onNodeInit(props): waitForDeviceReady() starts
\* with the default maxMs
ReadyOnNodeInit ==
  /\ readiness.caller = "onNodeInit" /\ readiness.pc = "idle"
  /\ readiness' = [readiness EXCEPT !.pc = "check", !.init = "waiting",
                                    !.start = readiness.now, !.delayMs = FirstDelayMs]
  /\ UNCHANGED <<earlyVars, lifeVars, dimVars>>

\* waitForDeviceReady(maxMs) is called by itself
WaitForDeviceReady ==
  /\ readiness.caller = "direct" /\ readiness.pc = "idle"
  /\ readiness' = [readiness EXCEPT !.pc = "check", !.start = readiness.now,
                                    !.delayMs = FirstDelayMs]
  /\ UNCHANGED <<earlyVars, lifeVars, dimVars>>

\* while (!this.isDeviceReady()) { if (Date.now() - start > maxMs) throw ...;
\* await new Promise(r => this.homey.setTimeout(r, delayMs)); ...
ReadyCheck ==
  /\ readiness.pc = "check"
  /\ readiness' =
       IF readiness.tuya THEN [readiness EXCEPT !.pc = "returned"]
       ELSE IF readiness.now - readiness.start > readiness.maxMs
         THEN [readiness EXCEPT !.pc = "threw"]
       ELSE [readiness EXCEPT !.pc = "wait",
                              !.waits = Append(@, readiness.delayMs)]
  /\ UNCHANGED <<earlyVars, lifeVars, dimVars>>

\* the timeout ends, at its due time or later: delayMs = Math.min(delayMs * 2, 1000)
\* and the loop checks again
ReadyTimer(late) ==
  /\ readiness.pc = "wait"
  /\ readiness' = [readiness EXCEPT !.pc = "check",
                                    !.now = @ + readiness.delayMs + late,
                                    !.delayMs = NextDelay(@)]
  /\ UNCHANGED <<earlyVars, lifeVars, dimVars>>

\* onNodeInit after waitForDeviceReady: log 'cluster ready', or catch (err) and
\* this.error('waitForDeviceReady failed'); onNodeInit returns either way
ReadyOnNodeInitEnds ==
  /\ readiness.caller = "onNodeInit" /\ readiness.init = "waiting"
  /\ readiness.pc \in {"returned", "threw"}
  /\ readiness' = [readiness EXCEPT !.init = "complete",
                                    !.log = IF readiness.pc = "threw"
                                              THEN "waitForDeviceReady failed"
                                              ELSE "cluster ready"]
  /\ UNCHANGED <<earlyVars, lifeVars, dimVars>>

\* the node's endpoint gets its tuya cluster
TuyaClusterAppears ==
  /\ ~readiness.tuya
  /\ readiness.pc \in {"check", "wait"}
  /\ readiness' = [readiness EXCEPT !.tuya = TRUE]
  /\ UNCHANGED <<earlyVars, lifeVars, dimVars>>

ReadyIdleState ==
  [caller |-> "direct", maxMs |-> 0, tuya |-> FALSE, pc |-> "idle", init |-> "none",
   now |-> 0, start |-> 0, delayMs |-> 0, waits |-> <<>>, log |-> ""]

ReadyIdle == readiness = ReadyIdleState

ReadyInit ==
  \E tuya \in BOOLEAN :
    \/ readiness = [ReadyIdleState EXCEPT !.caller = "onNodeInit", !.tuya = tuya,
                                          !.maxMs = DefaultMaxMs]
    \/ \E maxMs \in MaxMsValues :
         readiness = [ReadyIdleState EXCEPT !.maxMs = maxMs, !.tuya = tuya]

\* the steps the program takes by itself
ReadySteps ==
  \/ ReadyOnNodeInit
  \/ WaitForDeviceReady
  \/ ReadyCheck
  \/ \E late \in TimerLateness : ReadyTimer(late)
  \/ ReadyOnNodeInitEnds

ReadyNext ==
  \/ ReadyOnNodeInit
  \/ WaitForDeviceReady
  \/ ReadyCheck
  \/ \E late \in TimerLateness : ReadyTimer(late)
  \/ ReadyOnNodeInitEnds
  \/ TuyaClusterAppears

\* the parts of the program a specification does not exercise rest in one fixed state
CmdIdle == CmdInit /\ retry_stage = "balanced"
AvailIdle ==
  /\ AvailInit /\ strategy = "Cluster6" /\ handlesSetting
  /\ health_monitoring_enabled /\ last_seen_ts = StartTime


LateIdle == LifeIdle /\ DimIdle /\ ReadyIdle

ProtoIdle == TxIdle /\ CodecIdle /\ ClusterIdle /\ TimeIdle /\ SettingsIdle /\ InboundIdle /\ LateIdle

ExtIdle == SibIdle /\ NodeIdle /\ BulkIdle /\ RouteIdle /\ ProtoIdle

InitSend == SendInit /\ CmdIdle /\ AvailIdle /\ ExtIdle
InitCmd == SendInit /\ CmdInit /\ AvailIdle /\ ExtIdle
InitRetry == SendInit /\ RetryInit /\ AvailIdle /\ ExtIdle
InitAvail == SendInit /\ CmdIdle /\ AvailInit /\ ExtIdle
InitAvailFaults == SendInit /\ CmdIdle /\ AvailFaultInit /\ ExtIdle
InitSib == SendInit /\ CmdIdle /\ AvailIdle /\ SibInit /\ NodeIdle /\ BulkIdle /\ RouteIdle /\ ProtoIdle
InitNode == SendInit /\ CmdIdle /\ AvailIdle /\ SibIdle /\ NodeInit /\ BulkIdle /\ RouteIdle /\ ProtoIdle
InitBulk == SendInit /\ CmdIdle /\ AvailIdle /\ SibIdle /\ NodeIdle /\ BulkInit /\ RouteIdle /\ ProtoIdle
InitTx == SendInit /\ CmdIdle /\ AvailIdle /\ SibIdle /\ NodeIdle /\ BulkIdle /\ RouteIdle /\ TxInit /\ CodecIdle /\ ClusterIdle /\ TimeIdle /\ SettingsIdle /\ InboundIdle /\ LateIdle
InitCodec == SendInit /\ CmdIdle /\ AvailIdle /\ SibIdle /\ NodeIdle /\ BulkIdle /\ RouteIdle /\ TxIdle /\ CodecInit /\ ClusterIdle /\ TimeIdle /\ SettingsIdle /\ InboundIdle /\ LateIdle
InitCluster == SendInit /\ CmdIdle /\ AvailIdle /\ SibIdle /\ NodeIdle /\ BulkIdle /\ RouteIdle /\ TxIdle /\ CodecIdle /\ ClusterInit /\ TimeIdle /\ SettingsIdle /\ InboundIdle /\ LateIdle
InitTime == SendInit /\ CmdIdle /\ AvailIdle /\ SibIdle /\ NodeIdle /\ BulkIdle /\ RouteIdle /\ TxIdle /\ CodecIdle /\ ClusterIdle /\ TimeInit /\ SettingsIdle /\ InboundIdle /\ LateIdle
InitSettings == SendInit /\ CmdIdle /\ AvailIdle /\ SibIdle /\ NodeIdle /\ BulkIdle /\ RouteIdle /\ TxIdle /\ CodecIdle /\ ClusterIdle /\ TimeIdle /\ SettingsInit /\ InboundIdle /\ LateIdle
InitInbound == SendInit /\ CmdIdle /\ AvailIdle /\ SibIdle /\ NodeIdle /\ BulkIdle /\ RouteIdle /\ TxIdle /\ CodecIdle /\ ClusterIdle /\ TimeIdle /\ SettingsIdle /\ InboundInit /\ LateIdle
InitLife == SendInit /\ CmdIdle /\ AvailIdle /\ SibIdle /\ NodeIdle /\ BulkIdle /\ RouteIdle /\ TxIdle /\ CodecIdle /\ ClusterIdle /\ TimeIdle /\ SettingsIdle /\ InboundIdle /\ LifeInit /\ DimIdle /\ ReadyIdle
InitDim == SendInit /\ CmdIdle /\ AvailIdle /\ SibIdle /\ NodeIdle /\ BulkIdle /\ RouteIdle /\ TxIdle /\ CodecIdle /\ ClusterIdle /\ TimeIdle /\ SettingsIdle /\ InboundIdle /\ LifeIdle /\ DimInit /\ ReadyIdle
InitReady == SendInit /\ CmdIdle /\ AvailIdle /\ SibIdle /\ NodeIdle /\ BulkIdle /\ RouteIdle /\ TxIdle /\ CodecIdle /\ ClusterIdle /\ TimeIdle /\ SettingsIdle /\ InboundIdle /\ LifeIdle /\ DimIdle /\ ReadyInit
InitRoute == SendInit /\ CmdIdle /\ AvailIdle /\ SibIdle /\ NodeIdle /\ BulkIdle /\ RouteInit /\ ProtoIdle

SpecSend == InitSend /\ [][SendNext]_vars

SpecCmd == InitCmd /\ [][CmdNext]_vars

SpecRetry == InitRetry /\ [][RetryNext]_vars

SpecAvail == InitAvail /\ [][AvailNext]_vars

SpecAvailFaults == InitAvailFaults /\ [][AvailFaultNext]_vars

SpecSib == InitSib /\ [][SibNext]_vars

SpecNode == InitNode /\ [][NodeNext]_vars

SpecBulk == InitBulk /\ [][BulkNext]_vars

SpecRoute == InitRoute /\ [][RouteNext]_vars

SpecTx == InitTx /\ [][TxNext]_vars

SpecCodec == InitCodec /\ [][CodecNext]_vars

SpecCluster == InitCluster /\ [][ClusterNext]_vars

SpecTime == InitTime /\ [][TimeNext]_vars

SpecSettings == InitSettings /\ [][SettingsNext]_vars

SpecInbound == InitInbound /\ [][InboundNext]_vars

SpecLife == InitLife /\ [][LifeNext]_vars

SpecDim == InitDim /\ [][DimNext]_vars

SpecReady == InitReady /\ [][ReadyNext]_vars

\* the event loop runs every continuation and every timer that is ready
FairSpecReady == SpecReady /\ WF_vars(ReadySteps)

\* ═════════════════════════════════════════════════════════════════════════
\*  Properties of the datapoint write path
\* ═════════════════════════════════════════════════════════════════════════

\* C1: a call of _sendTuyaDatapoint makes at most maxRetries+1 attempts (and at most
\* that many tuya.datapoint calls); it returns at the first attempt that does not throw
\* and attempts nothing after it; when it throws, all maxRetries+1 attempts threw and
\* the error thrown is the one raised by the last attempt.
C1_AttemptsBoundedAndLastErrorThrown ==
  LET n == Len(sd_log) IN
  /\ n <= sd_maxRetries + 1
  /\ sd_txCount <= sd_maxRetries + 1
  /\ \A i \in 1..n : sd_log[i] = "ok" => (i = n /\ sd_pc = "returned")
  /\ sd_pc = "returned" => (n >= 1 /\ sd_log[n] = "ok")
  /\ sd_pc = "thrown" =>
       /\ n = sd_maxRetries + 1
       /\ \A i \in 1..n : sd_log[i] # "ok"
       /\ sd_thrown = [attempt |-> sd_maxRetries, kind |-> sd_log[n]]

\* a call with maxRetries = 2 whose three attempts all threw, the last one in the transport
C1_Witness ==
  /\ sd_pc = "thrown" /\ sd_maxRetries = 2 /\ sd_txCount = 3
  /\ sd_thrown = [attempt |-> 2, kind |-> "transport"]

\* C2: the wait after failed attempt k (k = 0..maxRetries-1) is baseDelay * 2^k; nothing is
\* waited before attempt 0 nor after the final failed attempt. With maxRetries = 2 and
\* baseDelay = 300: two failures then success waited 300 then 600, three failures 900 in all.
C2_ExponentialBackoff ==
  LET n == Len(sd_log)
      w == Len(sd_waits) IN
  /\ \A k \in 0..(w - 1) : sd_waits[k + 1] = sd_baseDelay * (2 ^ k)
  /\ sd_pc \in {"loop", "tx", "wait"} => w = n
  /\ sd_pc = "returned" => w = n - 1
  /\ sd_pc = "thrown" => w = sd_maxRetries
  /\ (sd_maxRetries = 2 /\ sd_baseDelay = 300 /\ sd_pc = "returned" /\ n = 3)
        => sd_waits = <<300, 600>>
  /\ (sd_maxRetries = 2 /\ sd_baseDelay = 300 /\ sd_pc = "thrown")
        => (sd_waits = <<300, 600>> /\ sd_waits[1] + sd_waits[2] = 900)

\* a call with maxRetries = 2, baseDelay = 300 that failed twice and then succeeded
C2_Witness ==
  /\ sd_pc = "returned" /\ sd_maxRetries = 2 /\ sd_baseDelay = 300
  /\ sd_log = <<"transport", "transport", "ok">>

\* ═════════════════════════════════════════════════════════════════════════
\*  Properties of the ZCL on/off command path
\* ═════════════════════════════════════════════════════════════════════════

Quiescent == timers = {} /\ \A p \in Invs : inv[p].pc \in {"none", "done"}
\* the commands the user issued (a re-dispatch carries the id of the command it repeats)
UserCommands == {p \in Invs : inv[p].pc # "none" /\ inv[p].cmd = p}
Executions(c) == {p \in Invs : inv[p].cmd = c /\ inv[p].executed}

\* C3: for one physical device, at no time are two outbound on/off writes in flight
\* concurrently, whatever the interleaving of capability commands.
C3_NoConcurrentWrites == Cardinality(InFlight(inv)) <= 1

\* C4: a command whose abort signal is raised while it is in flight (transmit call or retry
\* delay) starts no further transmit, never runs the success path, and finishes 'aborted'.
C4_AbortedInFlightResolvesAborted ==
  \A p \in Invs :
    inv[p].abortedInFlight =>
      /\ inv[p].tx = inv[p].txAtAbort
      /\ ~inv[p].successPath
      /\ inv[p].pc = "done" => inv[p].outcome = "aborted"

\* C5: a command B submitted while command A is in flight on the same virtual device is
\* executed exactly once by the time the device is quiescent: neither dropped nor run twice.
C5_SupersedingCommandRunsOnce ==
  (Quiescent /\ UserCommands = {1, 2} /\ inv[2].busyAtArrival)
     => Cardinality(Executions(2)) = 1

\* C6: an abort raised during _sleepWithAbort ends the wait at once, and because the signal is
\* checked before every attempt and after every transmit call, a command whose signal was
\* raised is counted neither as a success nor as a retry-exhaustion failure.
C6_AbortedNeitherSuccessNorFailure ==
  \A p \in Invs :
    /\ (inv[p].pc = "backoff" /\ inv[p].aborted) => inv[p].woken
    /\ inv[p].aborted => inv[p].outcome \notin {"success", "failed"}

\* C7: a command equal in target and value to the last applied command, arriving less than
\* 300ms after that command started while no command is in flight, performs no transmit.
C7_DuplicateInWindowSuppressed ==
  \A p \in Invs :
    (inv[p].pc # "none" /\ ~inv[p].inflightAtArrival /\ inv[p].inWindow /\ inv[p].sameAsLast)
      => (inv[p].tx = 0 /\ ~inv[p].executed /\ inv[p].outcome = "debounced")

\* a second ON for the gang, 50ms or more after the first ON was applied and finished
C7_Witness ==
  \E p \in Invs :
    /\ inv[p].pc = "done" /\ inv[p].outcome = "debounced"
    /\ ~inv[p].inflightAtArrival /\ inv[p].inWindow /\ inv[p].sameAsLast
    /\ dev[inv[p].dev].lastCommandTime < now
    /\ \E q \in Invs : q # p /\ inv[q].outcome = "success" /\ inv[q].value = inv[p].value

\* ═════════════════════════════════════════════════════════════════════════
\*  Properties of the availability manager
\* ═════════════════════════════════════════════════════════════════════════

AliveInProgress == \E k \in AliveProcs : alive[k].pc \in {"stored", "restoring"}

\* C8: a watchdog tick marks devices unavailable exactly when monitoring is enabled, a
\* last-seen timestamp is stored, the owning device is available and now - last_seen is
\* strictly greater than the timeout (600000ms): idle 600001 marks, idle 600000 does not,
\* and a tick that finds the owning device unavailable makes no transition.
C8_TickMarksIffTimedOut ==
  tick.n > 0 =>
    /\ (tick.marked # {}) <=>
         (tick.enabled /\ tick.lastSeen # 0 /\ tick.ownerAvailable
            /\ tick.at - tick.lastSeen > 600000)
    /\ (tick.enabled /\ tick.ownerAvailable /\ tick.lastSeen # 0
          /\ tick.at - tick.lastSeen = 600001) => Owner \in tick.marked
    /\ tick.at - tick.lastSeen = 600000 => tick.marked = {}
    /\ ~tick.ownerAvailable => (tick.marked = {} /\ tick.pc = "idle")

\* a tick 600001ms after the last activity that has marked the owning device unavailable
C8_Witness ==
  /\ tick.n > 0 /\ tick.lastSeen # 0 /\ tick.at - tick.lastSeen = 600001
  /\ Owner \in tick.marked /\ ~available[Owner]

\* C9: every _markAlive stores last_seen = now; when it finds the owning device unavailable
\* it visits every sibling of the node and makes each one it finds unavailable available,
\* so that the owning device and all its siblings are available when it returns; when it
\* finds the owning device available it makes no availability transition.
C9_MarkAliveStoresAndRestores ==
  /\ [](\A k \in AliveProcs :
          /\ alive[k].pc = "stored" => (last_seen_ts # 0 /\ last_seen_ts >= alive[k].at)
          /\ (alive[k].pc = "done" /\ alive[k].ownerAvailable) =>
                (alive[k].restored = {} /\ alive[k].skipped = {})
          /\ (alive[k].pc = "done" /\ ~alive[k].ownerAvailable) =>
                /\ alive[k].restored \cup alive[k].skipped = NodeDevices
                /\ Owner \in alive[k].restored)
  /\ [][\A k \in AliveProcs :
          /\ (alive'[k].pc = "stored" /\ alive'[k] # alive[k]) =>
                (last_seen_ts' = now /\ alive'[k].at = now /\ available' = available)
          /\ (alive[k].pc = "stored" /\ alive'[k].pc = "done" /\ alive'[k].ownerAvailable) =>
                available' = available
          /\ (alive[k].pc # "done" /\ alive'[k].pc = "done" /\ ~alive'[k].ownerAvailable) =>
                \A d \in NodeDevices : available'[d]
          /\ (alive[k].pc \in {"stored", "restoring"} /\ alive'[k] # alive[k]) =>
                /\ \A s \in alive'[k].restored \ alive[k].restored :
                      ~available[s] /\ available'[s]
                /\ \A s \in alive'[k].skipped \ alive[k].skipped :
                      available[s] /\ available'[s]
                /\ \A s \in Devs \ (alive'[k].restored \ alive[k].restored) :
                      available'[s] = available[s]]_vars

\* C10: with three virtual devices on one hardware address, a watchdog timeout marks all
\* three unavailable, and an activity event arriving on any one of the three (main or
\* sub device) restores all three.
C10_AnySiblingActivityRestoresAll ==
  /\ (tick.marked # {} /\ tick.pc = "idle" /\ event = NoEvent)
        => \A d \in NodeDevices : ~available[d]
  /\ (event.dev # "none" /\ event.allUnavailable /\ ~AliveInProgress /\ tick.pc = "idle")
        => \A d \in NodeDevices : available[d]

\* C12: on a device whose onSettings installs / uninstalls the manager, switching
\* health_monitoring_enabled off stops the watchdog, switching it on starts the watchdog
\* again, and neither step changes the persisted last_seen_ts.
C12_ToggleStopsAndRestartsWatchdog ==
  [][(handlesSetting /\ health_monitoring_enabled' # health_monitoring_enabled) =>
        /\ last_seen_ts' = last_seen_ts
        /\ watchdog' = health_monitoring_enabled']_vars

\* C14: a virtual device that the watchdog has marked unavailable is available again once
\* the next inbound frame or report from its node has been handled, also when monitoring
\* was switched off (uninstall) after the timeout.
C14_RecoversOnNextFrame ==
  (event.dev # "none" /\ ~AliveInProgress /\ tick.pc = "idle")
     => \A d \in NodeDevices : available[d]

\* C13: in every multi-gang driver a physical node has one availability tracker: only
\* the main virtual device runs a watchdog, no sub device does, so that at most one
\* watchdog per node exists.
C13_OneWatchdogPerNode ==
  /\ node.watchdogs \subseteq {"main"}
  /\ Cardinality(node.watchdogs) <= 1

C11_SiblingsResolvedAndCascadeConfined ==
  sib.pc # "idle" =>
    LET d == sib.device
        readable == Devs \ sib.bad
        sameIeee == {x \in readable : sib.data[x].ieeeAddress = sib.data[d].ieeeAddress}
        sameToken == {x \in readable : sib.data[x].token = sib.data[d].token}
        expected == IF d \in sib.bad THEN {d}
                    ELSE IF sib.data[d].ieeeAddress # "" /\ sameIeee # {} THEN sameIeee
                    ELSE IF sib.data[d].token # "" /\ sameToken # {} THEN sameToken
                    ELSE {d}
        R == SeqToSet(sib.result)
    IN /\ R = expected
       /\ Len(sib.result) = Cardinality(R)
       /\ sib.touched \subseteq R
       /\ \A x \in Devs \ R : sib.avail[x] = sib.before[x]
       /\ \A x \in sib.touched : sib.before[x] # sib.want /\ sib.avail[x] = sib.want
       /\ sib.pc = "done" =>
            /\ \A x \in R : sib.avail[x] = sib.want
            /\ sib.touched = {x \in R : sib.before[x] # sib.want}

\* the device has no ieeeAddress, two devices share its token, a third device with another
\* token is available: a finished _markAllUnavailable has marked the two and only those
C11_Witness ==
  /\ sib.pc = "done" /\ ~sib.want /\ sib.bad = {}
  /\ sib.data[sib.device].ieeeAddress = ""
  /\ sib.data[sib.device].token # ""
  /\ Cardinality(SeqToSet(sib.result)) = 2
  /\ sib.touched = SeqToSet(sib.result)
  /\ \E x \in Devs \ SeqToSet(sib.result) : sib.avail[x]

\* ═════════════════════════════════════════════════════════════════════════
\*  Properties of sendBulkCommands
\* ═════════════════════════════════════════════════════════════════════════

\* C16: sendBulkCommands attempts the items in list order, one at a time: an item is
\* started only when every item before it has its result, a datapoint write is in
\* progress only for the item being attempted; before every attempted item but the first
\* it has waited max(150, delayBetween) ms; every write is made with 2 retries and a base
\* delay of 200 ms.
C16_BulkSequentialAndPaced ==
  LET pace == IF bulk.delayBetween >= 150 THEN bulk.delayBetween ELSE 150 IN
  /\ \A k \in 1..Len(bulk.started) : bulk.started[k] = k
  /\ Len(bulk.started) <= Len(bulk.results) + 1
  /\ bulk.pc = "sending" => (Len(bulk.started) = bulk.i /\ Len(bulk.results) = bulk.i - 1)
  /\ sd_pc # "idle" => bulk.pc = "sending"
  /\ \A k \in 1..Len(bulk.waits) : bulk.waits[k] = pace
  /\ Len(bulk.started) > 0 => Len(bulk.waits) \in {Len(bulk.started) - 1, Len(bulk.started)}
  /\ bulk.params \subseteq {<<2, 200>>}
  /\ sd_pc \in {"loop", "tx", "wait"} => (sd_maxRetries = 2 /\ sd_baseDelay = 200)

\* a batch of three or more attempted items with delayBetween below the minimum is over
C16_Witness ==
  /\ bulk.pc = "returned"
  /\ bulk.delayBetween = 0
  /\ Len(bulk.started) >= 3
  /\ Len(bulk.waits) >= 2
  /\ Cardinality(bulk.transmitted) >= 2

\* C17: in a batch that was not aborted up front, an item is recorded as aborted, without
\* being attempted or transmitted, exactly when the two items before it both failed: two
\* failures in a row abort all that remain, a success in between starts the count anew.
C17_FailFastAfterTwoFailures ==
  bulk.getAvailable =>
    \A j \in 1..Len(bulk.results) :
      LET aborted == bulk.results[j].error = "aborted: consecutive failures"
          twoFailed == j > 2 /\ ~bulk.results[j - 1].success /\ ~bulk.results[j - 2].success
      IN /\ aborted <=> twoFailed
         /\ aborted => /\ ~bulk.results[j].success
                       /\ \A k \in 1..Len(bulk.started) : bulk.started[k] # j
                       /\ j \notin bulk.transmitted

\* two transmitted items failed and the two after them were aborted
C17_Witness ==
  /\ bulk.pc = "returned"
  /\ Len(bulk.results) = 4
  /\ bulk.transmitted = {1, 2}
  /\ bulk.results[3].error = "aborted: consecutive failures"
  /\ bulk.results[4].error = "aborted: consecutive failures"

\* C18: sendBulkCommands never throws; it returns one entry per input command, in input
\* order, each with the dp of its command, and success only for a command whose write
\* was transmitted.
C18_OneEntryPerCommandNeverThrows ==
  /\ bulk.pc # "threw"
  /\ bulk.pc = "returned" =>
       /\ Len(bulk.results) = Len(bulk.commands)
       /\ \A k \in 1..Len(bulk.results) :
            /\ bulk.results[k].dp = bulk.commands[k].dp
            /\ bulk.results[k].success => k \in bulk.transmitted

\* C19: called with a non-empty list while the device is unavailable, sendBulkCommands
\* returns at once: no item is attempted, nothing is transmitted, no transaction id is
\* consumed, and every command has an entry with success false and 'device unavailable'.
C19_UnavailableAbortsUpFront ==
  (bulk.pc # "idle" /\ ~bulk.getAvailable /\ Len(bulk.commands) > 0) =>
    /\ bulk.pc = "returned"
    /\ bulk.started = <<>>
    /\ bulk.transmitted = {}
    /\ bulk.waits = <<>>
    /\ sd_pc = "idle"
    /\ transactionID = bulk.tidAtCall
    /\ Len(bulk.results) = Len(bulk.commands)
    /\ \A k \in 1..Len(bulk.results) :
         bulk.results[k] = [success |-> FALSE, dp |-> bulk.commands[k].dp,
                            error |-> "device unavailable"]

\* a list of four commands was passed while the device was unavailable
C19_Witness ==
  /\ bulk.pc = "returned"
  /\ ~bulk.getAvailable
  /\ Len(bulk.commands) = 4
  /\ Len(bulk.results) = 4

\* ═════════════════════════════════════════════════════════════════════════
\*  Properties of datapoint routing
\* ═════════════════════════════════════════════════════════════════════════

C21_OwnedDatapointsDisjoint ==
  LET subs == SeqToSet(SubDeviceIds(route.driver))
      owns(sub) == {dp \in Datapoints \ {UndefinedDp} : IsMyDp(route, <<1, sub>>, dp)}
      gangDps == CASE route.driver = "NovaDigitalSwitch4Gang" -> 1..4
                   [] route.driver = "ZemismartSwitch6Gang" -> 1..6
                   [] route.driver = "MoesDimmer3Gang" -> 1..6
      globalDps == CASE route.driver = "NovaDigitalSwitch4Gang" -> {14}
                     [] route.driver = "ZemismartSwitch6Gang" -> {}
                     [] route.driver = "MoesDimmer3Gang" -> {16, 17}
  IN (\A sub \in subs : <<1, sub>> \in route.inited) =>
       /\ \A a, b \in subs : a # b => owns(a) \cap owns(b) = {}
       /\ \A dp \in gangDps : Cardinality({sub \in subs : dp \in owns(sub)}) = 1
       /\ \A dp \in globalDps : {sub \in subs : dp \in owns(sub)} = {""}

\* every device of a dimmer node is initialised
C21_Witness ==
  /\ route.driver = "MoesDimmer3Gang"
  /\ \A sub \in SeqToSet(SubDeviceIds(route.driver)) : <<1, sub>> \in route.inited

\* ═════════════════════════════════════════════════════════════════════════
\*  Properties of the frame-level parts
\* ═════════════════════════════════════════════════════════════════════════

\* C22: every frame sent to the node carries a transaction id in 0..255, and the id of a
\* frame is the id of the frame sent to the node before it, by whichever of its virtual
\* devices, plus 1 modulo 256.
C22_TransactionIdsConsecutive ==
  /\ tx.last.by # "none" => tx.last.transid \in 0..255
  /\ tx.prev.by # "none" => tx.last.transid = (tx.prev.transid + 1) % 256

\* the number is the big-endian accumulation of the bytes: sum of data[i] * 256^(n-i)
RECURSIVE Accumulates(_, _)
Accumulates(num, data) ==
  IF data = <<>> THEN num = 0
  ELSE /\ num >= 0
       /\ num % 256 = data[Len(data)]
       /\ Accumulates(num \div 256, SubSeq(data, 1, Len(data) - 1))

\* C23: decoding depends on (datatype, data) only: bool is true iff data[0] = 1, enum is
\* data[0], value and bitmap are the big-endian accumulation of all bytes, raw is the
\* bytes unchanged; decode(2,[0x01,0x2C]) = 300, decode(1,[0x01]) = true,
\* decode(1,[0x00]) = false, decode(4,[0x05]) = 5.
C23_DecodeByDatatype ==
  codec.pc = "decoded" =>
    /\ codec.decoded = GetDataValue(codec.datatype, codec.data)
    /\ codec.datatype = 1 =>
         (codec.decoded.kind = "bool"
            /\ (codec.decoded.num = 1 <=> (Len(codec.data) > 0 /\ codec.data[1] = 1)))
    /\ (codec.datatype = 4 /\ Len(codec.data) > 0) =>
         (codec.decoded.kind = "number" /\ codec.decoded.num = codec.data[1])
    /\ codec.datatype \in {2, 5} =>
         (codec.decoded.kind = "number" /\ Accumulates(codec.decoded.num, codec.data))
    /\ codec.datatype = 0 => (codec.decoded.kind = "bytes" /\ codec.decoded.bytes = codec.data)
    /\ (codec.datatype = 2 /\ codec.data = <<1, 44>>) => codec.decoded.num = 300
    /\ (codec.datatype = 4 /\ codec.data = <<5>>) => codec.decoded.num = 5

\* C24: for each of the six datatypes and every valid value buffer (one byte for bool and
\* enum, four bytes for value and bitmap, any bytes for string and raw), the decoded
\* value can be written with the write method of the datatype, and decoding what was
\* written gives the decoded value again.
C24_RoundTripStable ==
  LET valid == CASE codec.datatype \in {1, 4} -> Len(codec.data) = 1
                 [] codec.datatype \in {2, 5} -> Len(codec.data) = 4
                 [] codec.datatype \in {0, 3} -> TRUE
                 [] OTHER -> FALSE
  IN (valid /\ codec.pc \in {"encoded", "redecoded"}) =>
       /\ codec.encoded.kind = "bytes"
       /\ codec.pc = "redecoded" => codec.redecoded = codec.decoded

\* C25: a frame whose datatype is not one of 0..5 makes the decode throw 'Unsupported
\* datatype' (no value is produced); when a listener decodes such a frame, no capability
\* or setting is written and nothing escapes the handler of the command.
C25_UnsupportedDatatypeDropped ==
  LET isDp == \E k \in 1..Len(cluster.last.events) :
                cluster.last.events[k] \in {"reporting", "response", "datapoint"} IN
  (cluster.last.ran /\ isDp /\ cluster.listener # "throwing"
     /\ cluster.last.datatype \notin 0..5) =>
    /\ cluster.last.decoded.kind = "error"
    /\ cluster.last.decoded.error = "Unsupported datatype"
    /\ ~cluster.last.changed
    /\ ~cluster.last.escaped

\* the siren's listener has thrown on a frame of datatype 6
C25_Witness ==
  /\ cluster.listener = "siren"
  /\ cluster.last.ran
  /\ cluster.last.datatype = 6
  /\ cluster.last.threw

\* C26: a command with id 0x00, 0x01, 0x02, 0x03, 0x06, 0x11, 0x24 is re-emitted as
\* exactly one event: datapoint, reporting, response, dataQuery, reportingConfiguration,
\* heartbeat, timeRequest; a command with another id, without id or no command at all
\* emits nothing; nothing a listener throws escapes the command handler.
C26_OneNamedEventPerCommand ==
  cluster.commands > 0 =>
    /\ cluster.last.events =
         (CASE cluster.last.id = 0 -> <<"datapoint">>
            [] cluster.last.id = 1 -> <<"reporting">>
            [] cluster.last.id = 2 -> <<"response">>
            [] cluster.last.id = 3 -> <<"dataQuery">>
            [] cluster.last.id = 6 -> <<"reportingConfiguration">>
            [] cluster.last.id = 17 -> <<"heartbeat">>
            [] cluster.last.id = 36 -> <<"timeRequest">>
            [] OTHER -> <<>>)
    /\ ~cluster.last.escaped

\* a listener has thrown on a heartbeat
C26_Witness ==
  /\ cluster.last.id = 17
  /\ cluster.last.events = <<"heartbeat">>
  /\ cluster.last.threw

\* the four bytes at positions from+1 .. from+4 of the payload are n, big-endian
FourBytesAre(payload, from, n) ==
  /\ payload[from + 1] = n \div 16777216
  /\ payload[from + 2] = (n \div 65536) % 256
  /\ payload[from + 3] = (n \div 256) % 256
  /\ payload[from + 4] = n % 256

C28_NoRequestGivesEightBytes ==
  (timeSync.calls > 0 /\ (~timeSync.request.present \/ Len(timeSync.request.data) < 2)) =>
    /\ Len(timeSync.payload) = 8
    /\ FourBytesAre(timeSync.payload, 0, timeSync.utcSeconds)
    /\ FourBytesAre(timeSync.payload, 4, timeSync.utcSeconds + timeSync.offsetSeconds)

\* the value of a changed key is outside the range its device accepts
OutOfRangeKey(device, key, newSettings) ==
  \/ device = "siren" /\ key = "alarmvolume" /\ OutsideRange(newSettings.alarmvolume, 0, 2)
  \/ device = "siren" /\ key = "alarmsoundtime"
       /\ OutsideRange(newSettings.alarmsoundtime, 1, 1800)
  \/ device = "siren" /\ key = "alarmtune" /\ OutsideRange(newSettings.alarmtune, 0, 17)
  \/ device = "gang" /\ key = "power_on_behavior"
       /\ newSettings.power_on_behavior \notin {"off", "on", "memory"}

\* C29: a settings change with an out-of-range value (siren volume outside 0..2, duration
\* outside 1..1800, melody outside 0..17; 4-gang power-on mode other than off, on, memory)
\* makes onSettings throw, and no datapoint write is sent as part of that change,
\* whichever other keys changed with it.
C29_InvalidSettingThrowsBeforeAnyWrite ==
  ( /\ settingsCall.calls > 0
    /\ \E i \in 1..Len(settingsCall.changedKeys) :
         OutOfRangeKey(settingsCall.device, settingsCall.changedKeys[i],
                       settingsCall.newSettings) ) =>
    /\ settingsCall.thrown
    /\ settingsCall.writes = <<>>

\* what the user and the flows see of a device: the capability value, the number of
\* capability updates and of flow triggers, and the pending flag
SameDeviceState(A, B) ==
  /\ A.onoff = B.onoff
  /\ A.updates = B.updates
  /\ A.flows = B.flows
  /\ A._commandPending = B._commandPending

NamedPolicy(setting) ==
  CASE setting = "off" -> [attempts |-> 1, delayMs |-> 0]
    [] setting = "max" -> [attempts |-> 6, delayMs |-> 600]
    [] OTHER           -> [attempts |-> 3, delayMs |-> 350]

\* C31: _withRetry takes its policy from the setting retry_stage: 'off' makes one attempt
\* and never waits, 'balanced' makes at most 3 attempts 350ms apart, 'max' at most 6
\* attempts 600ms apart, a missing or unrecognised value behaves as 'balanced'; this holds
\* for every on/off command of the device, so a command whose attempts all fail has made
\* exactly that many attempts.
C31_RetryPolicyFromSetting ==
  \A p \in Invs :
    inv[p].executed =>
      /\ inv[p].tx <= NamedPolicy(retry_stage).attempts
      /\ inv[p].waits > 0 => inv[p].delayMs = NamedPolicy(retry_stage).delayMs
      /\ inv[p].gap >= 0 => inv[p].gap = NamedPolicy(retry_stage).delayMs
      /\ NamedPolicy(retry_stage).delayMs = 0 => inv[p].waits = 0
      /\ inv[p].pc = "done" => inv[p].outcome \in {"success", "aborted", "failed"}
      /\ inv[p].outcome = "failed" => inv[p].tx = NamedPolicy(retry_stage).attempts

\* the on/off commands the user issued to gang d
CommandsOf(d) == {p \in UserCommands : inv[p].dev = d}

\* no transmit was rejected and no call of the listener ended in an error
NoTransportFailure ==
  \A p \in Invs : ~inv[p].txFailed /\ inv[p].outcome \notin {"failed", "threw"}

\* C32: after a burst of on/off commands on one virtual device, once the device is
\* quiescent and no transmit has failed, the last frame sent to the device carries the
\* value of the last command the user issued: a later command is not lost to the debounce
\* window, the pending-command slot or the busy flag.
C32_LastCommandIsLastFrame ==
  (Quiescent /\ NoTransportFailure) =>
    \A d \in Gangs :
      CommandsOf(d) # {} =>
        LET last == CHOOSE p \in CommandsOf(d) : \A q \in CommandsOf(d) : q <= p IN
        dev[d].framed /\ dev[d].lastFrameValue = inv[last].value

\* ═════════════════════════════════════════════════════════════════════════
\*  Properties of interleaved cascades, of the command lock and of the
\*  watchdog's life cycle
\* ═════════════════════════════════════════════════════════════════════════

\* C33: when a timeout cascade (_markAllUnavailable) and an activity restore (_markAlive,
\* _markAllAvailable) interleave at their awaits, then once both have finished all
\* siblings of the node have the same availability: no sibling is left unavailable while
\* the main device is available.
C33_CascadeAndRestoreAgree ==
  (tick.pc = "idle" /\ ~AliveInProgress) =>
    \A d, e \in NodeDevices : available[d] = available[e]

\* C34: _commandLock of a device instance is true in every state in which one of its
\* on/off transmits is in flight or its retry delay is pending, and false once no
\* command is executing: every completion path releases it.
C34_LockHeldExactlyWhileExecuting ==
  \A d \in Gangs : dev[d].commandLock <=> (Executing(inv, d) # {})

LifeQuiet == \A c \in LifeCalls : life.calls[c].pc \in {"none", "done"}

\* the install() or uninstall() call issued last
LastLifeCall == CHOOSE c \in LifeCalls :
                  life.calls[c].pc # "none" /\ \A b \in LifeCalls : b > c => life.calls[b].pc = "none"

\* C35: after any sequence of install() and uninstall() calls on one manager, also when
\* they overlap, at most one watchdog interval exists, _installed is true exactly when a
\* watchdog interval is running, and an install() issued after an uninstall(), with
\* monitoring enabled, leaves the watchdog running.
C35_OneWatchdogIffInstalled ==
  /\ life.intervals <= 1
  /\ LifeQuiet => (life.installed <=> life.intervals = 1)
  /\ (LifeQuiet /\ life.calls[1].pc # "none" /\ life.enabled
        /\ life.calls[LastLifeCall].kind = "install"
        /\ life.calls[LastLifeCall].afterUninstall
        /\ life.calls[LastLifeCall].result # "failed") => life.intervals = 1

\* C36: with the passive (Cluster0) strategy a frame records activity exactly once while
\* the manager is installed and not at all after uninstall(); install / uninstall cycles
\* do not stack hooks; the node's original frame handler runs exactly once per frame.
C36_FrameHookOncePerFrame ==
  (life.strategy = "Cluster0" /\ life.frame.n > 0) =>
    /\ life.frame.original = 1
    /\ life.frame.quiet =>
         life.frame.markAlive = (IF life.frame.installed THEN 1 ELSE 0)
    /\ life.hooks <= 1

\* C37: for every integer v of 0..2^32-1 that writeData32 accepts, decoding the four
\* big-endian bytes it writes gives v again; and for inputs of up to four bytes the
\* decoders of the drivers return the same non-negative number.
C37_Uint32RoundTrip ==
  codec.pc \in {"decoded", "encoded", "redecoded"} =>
    /\ codec.input.kind = "uint32" =>
         /\ codec.decoded.kind = "number"
         /\ codec.decoded.num >= 0
         /\ codec.decoded.num \div 65536 = codec.input.hi
         /\ codec.decoded.num % 65536 = codec.input.lo
    /\ (codec.datatype \in {DT_VALUE, DT_BITMAP} /\ Len(codec.data) <= 4) =>
         /\ codec.decoded = codec.reduced
         /\ codec.decoded.num >= 0

\* C38: on the 4-gang switch, a further on/off command for a gang whose _commandPending
\* is true is skipped without a transmission, so at most one write per gang is in
\* flight; and _commandPending is reset when the write finishes, whether it succeeded
\* or threw.
C38_PendingCommandSkipsFurtherOnes ==
  inbound.device = "gang" =>
    \A D \in {inbound.once, inbound.twice} :
      /\ D.pendingBefore => ~D.started
      /\ D.inflight <= 1
      /\ D._commandPending <=> D.inflight = 1

C38_Witness ==
  /\ inbound.device = "gang"
  /\ inbound.once.pendingBefore /\ ~inbound.once.started
  /\ inbound.once.failed
  /\ ~inbound.once._commandPending

\* C39: with debouncing enabled, a burst of dim commands, each less than debounceDelay
\* after the one before, gives exactly one speed write: it is sent debounceDelay after
\* the last command of the burst and carries the last requested value, clamped to
\* minimumBrightness .. maximumBrightness.
C39_BurstGivesOneWrite ==
  dim.enableDebouncing =>
    /\ dim.burstWrites <= 1
    /\ dim.writesRight
    /\ (dim.lastCmdAt >= 0 /\ dim.now > dim.lastCmdAt + DebounceDelay) => dim.burstWrites = 1

\* the delays waitForDeviceReady has waited so far are 250, 500, 1000, 1000, ...
WaitsAreBackoff ==
  \A i \in 1..Len(readiness.waits) :
    readiness.waits[i] = (IF i = 1 THEN 250 ELSE IF i = 2 THEN 500 ELSE 1000)

WaitEnded == readiness.pc \in {"returned", "threw"}

\* C40: waitForDeviceReady(maxMs) always terminates: it returns once the tuya cluster
\* is present, otherwise it throws once more than maxMs have elapsed; between checks
\* it waits 250, 500, 1000, 1000, ... ms; onNodeInit catches the timeout and still
\* completes.
C40_WaitForDeviceReadyTerminates ==
  /\ [](/\ WaitsAreBackoff
        /\ readiness.pc = "returned" => readiness.tuya
        /\ readiness.pc = "threw" => readiness.now - readiness.start > readiness.maxMs
        /\ readiness.init = "complete" => WaitEnded)
  /\ <>(WaitEnded /\ (readiness.caller = "onNodeInit" => readiness.init = "complete"))

C40_Witness ==
  /\ readiness.caller = "onNodeInit"
  /\ readiness.pc = "threw"
  /\ readiness.init = "complete"
  /\ Len(readiness.waits) >= 4

====
